---------------------------- MODULE Spec2Model ----------------------------
(***************************************************************************)
(* Model of the @opentui-ui/styles engine: config normalisation            *)
(* (processStyledConfig), runtime resolution (resolveStyles), config       *)
(* merging (mergeStyledConfig) and the styled-definition factory           *)
(* (createStyled).                                                         *)
(*                                                                         *)
(* JavaScript values are modelled as follows.                              *)
(*   - an object is a function from its own keys (strings) to values; a    *)
(*     key that is absent is not in the DOMAIN;                            *)
(*   - the value `undefined` is UNDEF, a string value s is Str(s); both    *)
(*     are records with a jsType field, which no modelled object has as a  *)
(*     key, so the three kinds can be told apart;                          *)
(*   - an object whose key order is observable (`variants`, iterated with  *)
(*     for..in) is a record [order, map]: the keys in insertion order and  *)
(*     the key -> value function.                                          *)
(***************************************************************************)
EXTENDS Integers, Sequences, FiniteSets, TLC

(***************************************************************************)
(* JavaScript value helpers                                                *)
(***************************************************************************)
UNDEF == [jsType |-> "undefined"]

Str(s) == [jsType |-> "string", value |-> s]

\* A JavaScript array: its elements in order.
Arr(items) == [jsType |-> "array", items |-> items]

EmptyObject == <<>>

\* o[k] in JavaScript: reading an absent key gives undefined.
Get(o, k) == IF k \in DOMAIN o THEN o[k] ELSE UNDEF

\* o[k] = v
Put(o, k, v) == [x \in (DOMAIN o) \cup {k} |-> IF x = k THEN v ELSE o[x]]

\* { ...a, ...b }: every own key of b, undefined values included, replaces a's.
Spread(a, b) == [k \in (DOMAIN a) \cup (DOMAIN b) |-> IF k \in DOMAIN b THEN b[k] ELSE a[k]]

\* o without the key k (used to state properties, the engine never deletes)
Without(o, k) == [x \in (DOMAIN o) \ {k} |-> o[x]]

\* value ?? fallback, for an optional field of an object
OrElse(o, k, fallback) == IF Get(o, k) = UNDEF THEN fallback ELSE o[k]

STATE_SELECTOR_PREFIX == "_"

\* The names that occur after the selector prefix in the keys of the model.
SelectorNames == {"active", "focused"}

\* key.startsWith(STATE_SELECTOR_PREFIX)
startsWithPrefix(key) == \E n \in SelectorNames : key = STATE_SELECTOR_PREFIX \o n

isPlainObject(value) == "jsType" \notin DOMAIN value

(***************************************************************************)
(* resolve.ts                                                              *)
(***************************************************************************)
\* An ordered object with no keys.
EmptyOrdered == [order |-> <<>>, map |-> EmptyObject]

OrderedKeys(v) == {v.order[i] : i \in 1..Len(v.order)}

\* processStyledConfig that takes the variant names from defaultVariants.
processStyledConfigDefaultNames(config, stateKeys) ==
    LET variants == OrElse(config, "variants", EmptyOrdered)
    IN  [base             |-> OrElse(config, "base", EmptyObject),
         variants         |-> variants,
         compoundVariants |-> OrElse(config, "compoundVariants", Arr(<<>>)),
         defaultVariants  |-> OrElse(config, "defaultVariants", EmptyObject),
         stateKeys        |-> stateKeys,
         variantNameSet   |-> DOMAIN OrElse(config, "defaultVariants", EmptyObject)]

processStyledConfig(config, stateKeys) ==
    LET variants == OrElse(config, "variants", EmptyOrdered)
    IN  [base             |-> OrElse(config, "base", EmptyObject),
         variants         |-> variants,
         compoundVariants |-> OrElse(config, "compoundVariants", Arr(<<>>)),
         defaultVariants  |-> OrElse(config, "defaultVariants", EmptyObject),
         stateKeys        |-> stateKeys,
         variantNameSet   |-> OrderedKeys(variants)]

\* copyPlainProperties without the test of the selector prefix.
copyAllProperties(result, slotStyle) ==
    LET copied == {key \in DOMAIN slotStyle : slotStyle[key] # UNDEF}
    IN  [key \in (DOMAIN result) \cup copied |->
            IF key \in copied THEN slotStyle[key] ELSE result[key]]

\* The first loop of flattenSlotStyle: copy the defined non-selector properties.
copyPlainProperties(result, slotStyle) ==
    LET copied == {key \in DOMAIN slotStyle :
                       ~startsWithPrefix(key) /\ slotStyle[key] # UNDEF}
    IN  [key \in (DOMAIN result) \cup copied |->
            IF key \in copied THEN slotStyle[key] ELSE result[key]]

\* applySelector with a state key that is absent from state taken as active.
applySelectorUnlessFalse(result, slotStyle, state, stateKey) ==
    IF stateKey \in DOMAIN state /\ state[stateKey] = FALSE
    THEN result
    ELSE LET selectorStyle == Get(slotStyle, STATE_SELECTOR_PREFIX \o stateKey)
         IN  IF selectorStyle = UNDEF \/ ~isPlainObject(selectorStyle)
             THEN result
             ELSE LET set == {prop \in DOMAIN selectorStyle : selectorStyle[prop] # UNDEF}
                  IN  [prop \in (DOMAIN result) \cup set |->
                          IF prop \in set THEN selectorStyle[prop] ELSE result[prop]]

\* The body of the second loop of flattenSlotStyle for one state key.
applySelector(result, slotStyle, state, stateKey) ==
    IF ~(stateKey \in DOMAIN state /\ state[stateKey] = TRUE)
    THEN result
    ELSE LET selectorStyle == Get(slotStyle, STATE_SELECTOR_PREFIX \o stateKey)
         IN  IF selectorStyle = UNDEF \/ ~isPlainObject(selectorStyle)
             THEN result
             ELSE LET set == {prop \in DOMAIN selectorStyle : selectorStyle[prop] # UNDEF}
                  IN  [prop \in (DOMAIN result) \cup set |->
                          IF prop \in set THEN selectorStyle[prop] ELSE result[prop]]

RECURSIVE applySelectorsLastFirst(_, _, _, _)
\* applySelectors going through stateKeys from the last key to the first.
applySelectorsLastFirst(result, slotStyle, state, stateKeys) ==
    IF stateKeys = <<>>
    THEN result
    ELSE applySelector(applySelectorsLastFirst(result, slotStyle, state, Tail(stateKeys)),
                       slotStyle, state, Head(stateKeys))

RECURSIVE applySelectors(_, _, _, _)
applySelectors(result, slotStyle, state, stateKeys) ==
    IF stateKeys = <<>>
    THEN result
    ELSE applySelectors(applySelector(result, slotStyle, state, Head(stateKeys)),
                        slotStyle, state, Tail(stateKeys))

flattenSlotStyle(result, slotStyle, state, stateKeys) ==
    applySelectors(copyPlainProperties(result, slotStyle), slotStyle, state, stateKeys)

applyLayerStyles(result, slotStyles, state, stateKeys) ==
    LET touched == {slotName \in DOMAIN slotStyles : slotStyles[slotName] # UNDEF}
    IN  [slotName \in (DOMAIN result) \cup touched |->
            IF slotName \in touched
            THEN flattenSlotStyle(IF slotName \in DOMAIN result
                                  THEN result[slotName] ELSE EmptyObject,
                                  slotStyles[slotName], state, stateKeys)
            ELSE result[slotName]]

\* compoundVariantMatches without the hasConditions guard.
compoundVariantMatchesUnguarded(compoundVariant, effectiveVariants) ==
    \A key \in (DOMAIN compoundVariant) \ {"styles"} :
        compoundVariant[key] = Get(effectiveVariants, key)

compoundVariantMatches(compoundVariant, effectiveVariants) ==
    LET conditions == (DOMAIN compoundVariant) \ {"styles"}
        hasConditions == conditions # {}
    IN  IF \E key \in conditions : compoundVariant[key] # Get(effectiveVariants, key)
        THEN FALSE
        ELSE hasConditions

\* The effective variants with the defaults dropped as soon as a prop is passed.
effectiveVariantsPropsOnly(processed, variantProps) ==
    IF Cardinality(DOMAIN variantProps) > 0
    THEN variantProps
    ELSE processed.defaultVariants

\* The effective variants with the defaults spread over the selections.
effectiveVariantsDefaultsLast(processed, variantProps) ==
    LET hasVariantProps == Cardinality(DOMAIN variantProps) > 0
    IN  IF hasVariantProps
        THEN Spread(variantProps, processed.defaultVariants)
        ELSE processed.defaultVariants

effectiveVariantsOf(processed, variantProps) ==
    LET hasVariantProps == Cardinality(DOMAIN variantProps) > 0
    IN  IF hasVariantProps
        THEN Spread(processed.defaultVariants, variantProps)
        ELSE processed.defaultVariants

\* applyVariant falling back to the default value when the selected value is
\* not declared.
applyVariantDefaultFallback(result, processed, effectiveVariants, variantName, state) ==
    LET variantDefinition == processed.variants.map[variantName]
        declared(value) == /\ value # UNDEF /\ variantDefinition # UNDEF
                           /\ Get(variantDefinition, value.value) # UNDEF
        selected == Get(effectiveVariants, variantName)
        fallback == Get(processed.defaultVariants, variantName)
        variantValue == IF declared(selected) THEN selected ELSE fallback
    IN  IF declared(variantValue)
        THEN applyLayerStyles(result, variantDefinition[variantValue.value], state,
                              processed.stateKeys)
        ELSE result

\* One iteration of the variant loop of resolveStyles.
applyVariant(result, processed, effectiveVariants, variantName, state) ==
    LET variantValue == Get(effectiveVariants, variantName)
    IN  IF variantValue = UNDEF
        THEN result
        ELSE LET variantDefinition == processed.variants.map[variantName]
                 variantStyles == IF variantDefinition = UNDEF
                                  THEN UNDEF
                                  ELSE Get(variantDefinition, variantValue.value)
             IN  IF variantStyles # UNDEF
                 THEN applyLayerStyles(result, variantStyles, state, processed.stateKeys)
                 ELSE result

RECURSIVE applyVariants(_, _, _, _, _)
applyVariants(result, processed, effectiveVariants, names, state) ==
    IF names = <<>>
    THEN result
    ELSE applyVariants(applyVariant(result, processed, effectiveVariants, Head(names), state),
                       processed, effectiveVariants, Tail(names), state)

\* applyCompoundVariants stopping at the first matching entry.
RECURSIVE applyFirstCompoundVariant(_, _, _, _, _)
applyFirstCompoundVariant(result, compoundVariants, effectiveVariants, state, stateKeys) ==
    IF compoundVariants = <<>>
    THEN result
    ELSE IF compoundVariantMatches(Head(compoundVariants), effectiveVariants)
         THEN applyLayerStyles(result, Head(compoundVariants).styles, state, stateKeys)
         ELSE applyFirstCompoundVariant(result, Tail(compoundVariants), effectiveVariants,
                                        state, stateKeys)

RECURSIVE applyCompoundVariants(_, _, _, _, _)
applyCompoundVariants(result, compoundVariants, effectiveVariants, state, stateKeys) ==
    IF compoundVariants = <<>>
    THEN result
    ELSE LET compoundVariant == Head(compoundVariants)
             next == IF compoundVariantMatches(compoundVariant, effectiveVariants)
                     THEN applyLayerStyles(result, compoundVariant.styles, state, stateKeys)
                     ELSE result
         IN  applyCompoundVariants(next, Tail(compoundVariants), effectiveVariants,
                                   state, stateKeys)

\* resolveStyles with the selectors of the base resolved once, after all the
\* layers, instead of within the base layer.
resolveStylesBaseSelectorsLast(processed, state, variantProps, inlineStyles) ==
    LET selectorsOnly == [slot \in DOMAIN processed.base |->
                             IF processed.base[slot] = UNDEF
                             THEN UNDEF
                             ELSE [key \in {k \in DOMAIN processed.base[slot] :
                                               startsWithPrefix(k)} |->
                                      processed.base[slot][key]]]
        layer1 == applyLayerStyles(EmptyObject, processed.base, state, processed.stateKeys)
        effectiveVariants == effectiveVariantsOf(processed, variantProps)
        layer2 == applyVariants(layer1, processed, effectiveVariants,
                                processed.variants.order, state)
        layer3 == applyCompoundVariants(layer2, processed.compoundVariants.items,
                                        effectiveVariants, state, processed.stateKeys)
        layer4 == IF inlineStyles # UNDEF
                  THEN applyLayerStyles(layer3, inlineStyles, state, processed.stateKeys)
                  ELSE layer3
    IN  applyLayerStyles(layer4, selectorsOnly, state, processed.stateKeys)

\* resolveStyles with the inline layer applied first instead of last.
resolveStylesInlineFirst(processed, state, variantProps, inlineStyles) ==
    LET layer0 == IF inlineStyles # UNDEF
                  THEN applyLayerStyles(EmptyObject, inlineStyles, state, processed.stateKeys)
                  ELSE EmptyObject
        layer1 == applyLayerStyles(layer0, processed.base, state, processed.stateKeys)
        effectiveVariants == effectiveVariantsOf(processed, variantProps)
        layer2 == applyVariants(layer1, processed, effectiveVariants,
                                processed.variants.order, state)
    IN  applyCompoundVariants(layer2, processed.compoundVariants.items,
                              effectiveVariants, state, processed.stateKeys)

\* inlineStyles is UNDEF when the optional argument is not passed.
resolveStyles(processed, state, variantProps, inlineStyles) ==
    LET layer1 == applyLayerStyles(EmptyObject, processed.base, state, processed.stateKeys)
        effectiveVariants == effectiveVariantsOf(processed, variantProps)
        layer2 == applyVariants(layer1, processed, effectiveVariants,
                                processed.variants.order, state)
        layer3 == applyCompoundVariants(layer2, processed.compoundVariants.items,
                                        effectiveVariants, state, processed.stateKeys)
    IN  IF inlineStyles # UNDEF
        THEN applyLayerStyles(layer3, inlineStyles, state, processed.stateKeys)
        ELSE layer3

(***************************************************************************)
(* merge.ts                                                                *)
(***************************************************************************)
\* mergeStyle that returns the override alone: nothing of the base is kept.
mergeStyleOverrideOnly(base, override) ==
    LET set == {key \in DOMAIN override : override[key] # UNDEF}
    IN  [key \in set |-> override[key]]

mergeStyle(base, override) ==
    LET set == {key \in DOMAIN override : override[key] # UNDEF}
    IN  [key \in (DOMAIN base) \cup set |->
            IF key \in set THEN override[key] ELSE base[key]]

\* mergeOverrideKey with the branch for a selector the base does not have left
\* out: the override's selector is dropped.
mergeOverrideKeyBaseSelectorOnly(result, override, key) ==
    LET overrideValue == override[key]
    IN  IF startsWithPrefix(key) /\ isPlainObject(overrideValue)
        THEN LET baseSelector == Get(result, key)
             IN  IF isPlainObject(baseSelector)
                 THEN mergeStyle(baseSelector, overrideValue)
                 ELSE baseSelector
        ELSE overrideValue

\* The second loop of mergeSlotStyleWithSelectors for one key of the override;
\* result holds the copy of the base made by the first loop.
mergeOverrideKey(result, override, key) ==
    LET overrideValue == override[key]
    IN  IF overrideValue = UNDEF
        THEN Get(result, key)
        ELSE IF startsWithPrefix(key) /\ isPlainObject(overrideValue)
             THEN LET baseSelector == Get(result, key)
                  IN  IF isPlainObject(baseSelector)
                      THEN mergeStyle(baseSelector, overrideValue)
                      ELSE overrideValue
             ELSE overrideValue

\* mergeSlotStyleWithSelectors with the arguments taken the other way round: the
\* base wins on the keys both sides define.
mergeSlotStyleWithSelectorsBaseWins(base, override) ==
    LET kept == {key \in DOMAIN base : base[key] # UNDEF}
    IN  [key \in (DOMAIN override) \cup kept |->
            IF key \in kept THEN mergeOverrideKey(override, base, key) ELSE override[key]]

mergeSlotStyleWithSelectors(base, override) ==
    LET written == {key \in DOMAIN override : override[key] # UNDEF}
    IN  [key \in (DOMAIN base) \cup written |->
            IF key \in written THEN mergeOverrideKey(base, override, key) ELSE base[key]]

mergeSlotStyles(base, override) ==
    LET written == {slot \in DOMAIN override : override[slot] # UNDEF}
    IN  [slot \in (DOMAIN base) \cup written |->
            IF slot \in written
            THEN IF Get(base, slot) = UNDEF
                 THEN override[slot]
                 ELSE mergeSlotStyleWithSelectors(base[slot], override[slot])
            ELSE base[slot]]

\* mergeVariantValues that takes the override's definition of a value whole,
\* with no per-slot merge with the base's.
mergeVariantValuesOverrideWhole(baseValues, overrideValues) ==
    IF overrideValues = UNDEF
    THEN baseValues
    ELSE LET written == {valueName \in DOMAIN overrideValues :
                             overrideValues[valueName] # UNDEF}
         IN  [valueName \in (DOMAIN baseValues) \cup written |->
                 IF valueName \in written
                 THEN overrideValues[valueName]
                 ELSE baseValues[valueName]]

\* overrideValues is UNDEF when the override declares the variant name with no
\* definition: for..in over undefined runs no iteration.
mergeVariantValues(baseValues, overrideValues) ==
    IF overrideValues = UNDEF
    THEN baseValues
    ELSE LET written == {valueName \in DOMAIN overrideValues :
                             overrideValues[valueName] # UNDEF}
         IN  [valueName \in (DOMAIN baseValues) \cup written |->
                 IF valueName \in written
                 THEN IF Get(baseValues, valueName) = UNDEF
                      THEN overrideValues[valueName]
                      ELSE mergeSlotStyles(baseValues[valueName], overrideValues[valueName])
                 ELSE baseValues[valueName]]

\* The loop of mergeVariants over the override's variant names, in their order.
RECURSIVE mergeVariantNames(_, _, _)
mergeVariantNames(result, overrideVariants, names) ==
    IF names = <<>>
    THEN result
    ELSE LET variantName == Head(names)
             baseVariant == Get(result.map, variantName)
             overrideVariant == overrideVariants.map[variantName]
             value == IF baseVariant = UNDEF
                      THEN overrideVariant
                      ELSE mergeVariantValues(baseVariant, overrideVariant)
             order == IF variantName \in DOMAIN result.map
                      THEN result.order
                      ELSE Append(result.order, variantName)
         IN  mergeVariantNames([order |-> order, map |-> Put(result.map, variantName, value)],
                               overrideVariants, Tail(names))

\* mergeVariants that keeps only the override's variants when both configs
\* declare some.
mergeVariantsOverrideOnly(baseVariants, overrideVariants) ==
    IF baseVariants = UNDEF /\ overrideVariants = UNDEF
    THEN EmptyOrdered
    ELSE IF overrideVariants = UNDEF
         THEN baseVariants
         ELSE overrideVariants

mergeVariants(baseVariants, overrideVariants) ==
    IF baseVariants = UNDEF /\ overrideVariants = UNDEF
    THEN EmptyOrdered
    ELSE IF baseVariants = UNDEF
         THEN overrideVariants
         ELSE IF overrideVariants = UNDEF
              THEN baseVariants
              ELSE mergeVariantNames(baseVariants, overrideVariants, overrideVariants.order)

\* mergeStyledConfig that deduplicates the compound entries: a base entry with
\* the conditions of an override entry is dropped from the merged list.
mergeStyledConfigDeduplicated(baseConfig, overrideConfig) ==
    LET mergedBase == mergeSlotStyles(OrElse(baseConfig, "base", EmptyObject),
                                      OrElse(overrideConfig, "base", EmptyObject))
        mergedVariants == mergeVariants(Get(baseConfig, "variants"),
                                        Get(overrideConfig, "variants"))
        mergedDefaultVariants == Spread(OrElse(baseConfig, "defaultVariants", EmptyObject),
                                        OrElse(overrideConfig, "defaultVariants", EmptyObject))
        baseItems == OrElse(baseConfig, "compoundVariants", Arr(<<>>)).items
        overrideItems == OrElse(overrideConfig, "compoundVariants", Arr(<<>>)).items
        repeated(entry) == \E j \in DOMAIN overrideItems :
                              Without(overrideItems[j], "styles") = Without(entry, "styles")
        mergedCompoundVariants ==
            Arr(SelectSeq(baseItems, LAMBDA entry : ~repeated(entry)) \o overrideItems)
    IN  [base             |-> mergedBase,
         variants         |-> mergedVariants,
         defaultVariants  |-> mergedDefaultVariants,
         compoundVariants |-> mergedCompoundVariants]

mergeStyledConfig(baseConfig, overrideConfig) ==
    LET mergedBase == mergeSlotStyles(OrElse(baseConfig, "base", EmptyObject),
                                      OrElse(overrideConfig, "base", EmptyObject))
        mergedVariants == mergeVariants(Get(baseConfig, "variants"),
                                        Get(overrideConfig, "variants"))
        mergedDefaultVariants == Spread(OrElse(baseConfig, "defaultVariants", EmptyObject),
                                        OrElse(overrideConfig, "defaultVariants", EmptyObject))
        mergedCompoundVariants ==
            Arr(OrElse(baseConfig, "compoundVariants", Arr(<<>>)).items
                \o OrElse(overrideConfig, "compoundVariants", Arr(<<>>)).items)
    IN  [base             |-> mergedBase,
         variants         |-> mergedVariants,
         defaultVariants  |-> mergedDefaultVariants,
         compoundVariants |-> mergedCompoundVariants]

(***************************************************************************)
(* styled.ts                                                               *)
(***************************************************************************)
\* A component is a record [meta, styled]: meta is UNDEF or the component's
\* metadata, styled is UNDEF or the processed config stored under $$StyledConfig.
isStyledComponentDefinition(Component) == Component.styled # UNDEF

\* new Error(message)
Error(message) == [jsType |-> "error", name |-> "Error", message |-> message]

\* createStyled with the two configs handed to mergeStyledConfig the other way
\* round: the inner definition's config is laid over the new one.
createStyledInnerOnTop(Component, config) ==
    LET meta == Component.meta
        baseConfig == Component.styled
        baseAsConfig == [base             |-> baseConfig.base,
                         variants         |-> baseConfig.variants,
                         compoundVariants |-> baseConfig.compoundVariants,
                         defaultVariants  |-> baseConfig.defaultVariants]
        finalConfig == IF isStyledComponentDefinition(Component)
                       THEN mergeStyledConfig(config, baseAsConfig)
                       ELSE config
        processed == processStyledConfig(finalConfig, meta.stateKeys)
    IN  [component |-> Component,
         processed |-> processed,
         config    |-> finalConfig,
         styled    |-> processed,
         meta      |-> meta]

\* createStyled when the metadata guard passes.
createStyled(Component, config) ==
    LET meta == Component.meta
        baseConfig == Component.styled
        baseAsConfig == [base             |-> baseConfig.base,
                         variants         |-> baseConfig.variants,
                         compoundVariants |-> baseConfig.compoundVariants,
                         defaultVariants  |-> baseConfig.defaultVariants]
        finalConfig == IF isStyledComponentDefinition(Component)
                       THEN mergeStyledConfig(baseAsConfig, config)
                       ELSE config
        processed == processStyledConfig(finalConfig, meta.stateKeys)
    IN  [component |-> Component,
         processed |-> processed,
         config    |-> finalConfig,
         styled    |-> processed,
         meta      |-> meta]

\* The outcome of a createStyled call: the guard throws when Component carries
\* no metadata, before anything else is done; otherwise the definition is returned.
tryCreateStyled(Component, config) ==
    IF Get(Component, "meta") = UNDEF
    THEN [returned |-> UNDEF,
          threw    |-> Error("styled() requires a component with OTUI metadata. "
                             \o "Ensure the component has [$$OtuiComponentMeta] attached.")]
    ELSE [returned |-> createStyled(Component, config), threw |-> UNDEF]

\* splitVariantProps that leaves out the props whose value is undefined.
splitVariantPropsDefinedOnly(props, variantNameSet) ==
    LET defined == {key \in DOMAIN props : props[key] # UNDEF}
    IN  <<[key \in defined \cap variantNameSet |-> props[key]],
          [key \in defined \ variantNameSet |-> props[key]]>>

\* The tuple [variantProps, forwardProps].
splitVariantProps(props, variantNameSet) ==
    <<[key \in (DOMAIN props) \cap variantNameSet |-> props[key]],
      [key \in (DOMAIN props) \ variantNameSet |-> props[key]]>>

getVariantNames(processed) == processed.variantNameSet

(***************************************************************************)
(* The same functions over objects in memory.  The heap is the sequence of *)
(* the allocated objects, an address is a position in it, and an object    *)
(* holds a nested object as a reference to its address.  Every function    *)
(* takes the heap and references and gives the heap it leaves; each        *)
(* assignment of the code is a write at the address of the object it       *)
(* assigns into.                                                           *)
(***************************************************************************)
Ref(addr) == [jsType |-> "ref", addr |-> addr]

IsRef(value) == "jsType" \in DOMAIN value /\ value.jsType = "ref"

\* {} or { ...object } or a literal: a new object with the given content.
New(heap, content) == [heap |-> Append(heap, content), value |-> Ref(Len(heap) + 1)]

\* object[key] = value
Write(heap, object, key, value) == [heap EXCEPT ![object.addr] = Put(@, key, value)]

\* object[key] = value on an object whose key order is kept
WriteOrdered(heap, object, key, value) ==
    [heap EXCEPT ![object.addr] =
        [order |-> IF key \in DOMAIN @.map THEN @.order ELSE Append(@.order, key),
         map   |-> Put(@.map, key, value)]]

RECURSIVE SetToSeq(_)
SetToSeq(set) ==
    IF set = {}
    THEN <<>>
    ELSE LET first == CHOOSE x \in set : TRUE
         IN  <<first>> \o SetToSeq(set \ {first})

\* The own keys of an object, in the order a for..in loop visits them.
KeysOf(object) == SetToSeq(DOMAIN object)

\* A loop: Body(heap, key) is the heap one iteration leaves.  The test of Len
\* has the heap of an iteration computed before the next iteration starts.
ForEach(Body(_, _), heap, keys) ==
    LET RECURSIVE loop(_, _)
        loop(h, rest) ==
            IF rest = <<>>
            THEN h
            ELSE LET next == Body(h, Head(rest))
                 IN  IF Len(next) >= 0 THEN loop(next, Tail(rest)) ELSE next
    IN  loop(heap, keys)

\* --- reading an object of the heap with everything it refers to ---
LoadEach(Load1(_, _), heap, content) ==
    [key \in DOMAIN content |->
        IF IsRef(content[key]) THEN Load1(heap, content[key]) ELSE content[key]]

LoadStyle(heap, ref) == heap[ref.addr]

LoadSlotStyle(heap, ref) == LoadEach(LoadStyle, heap, heap[ref.addr])

LoadSlotStyles(heap, ref) == LoadEach(LoadSlotStyle, heap, heap[ref.addr])

LoadValues(heap, ref) == LoadEach(LoadSlotStyles, heap, heap[ref.addr])

LoadVariants(heap, ref) ==
    [order |-> heap[ref.addr].order, map |-> LoadEach(LoadValues, heap, heap[ref.addr].map)]

LoadEntry(heap, ref) == LoadEach(LoadSlotStyles, heap, heap[ref.addr])

LoadCompounds(heap, ref) ==
    Arr([i \in DOMAIN heap[ref.addr].items |-> LoadEntry(heap, heap[ref.addr].items[i])])

\* A config, author's or processed: the fields it has, each read in full.
LoadConfig(heap, ref) ==
    LET content == heap[ref.addr]
    IN  [field \in DOMAIN content |->
            CASE field = "base"             -> LoadSlotStyles(heap, content[field])
              [] field = "variants"         -> LoadVariants(heap, content[field])
              [] field = "compoundVariants" -> LoadCompounds(heap, content[field])
              [] field = "defaultVariants"  -> LoadStyle(heap, content[field])
              [] OTHER                      -> content[field]]

\* --- writing an object literal into the heap, nested objects first-class ---
StoreEach(Store1(_, _), heap, content) ==
    LET parent == New(heap, content)
    IN  [heap  |-> ForEach(LAMBDA h, key :
                               IF ~isPlainObject(content[key])
                               THEN h
                               ELSE LET child == Store1(h, content[key])
                                    IN  Write(child.heap, parent.value, key, child.value),
                           parent.heap, KeysOf(content)),
         value |-> parent.value]

StoreStyle(heap, style) == New(heap, style)

StoreSlotStyle(heap, slotStyle) == StoreEach(StoreStyle, heap, slotStyle)

StoreSlotStyles(heap, slotStyles) == StoreEach(StoreSlotStyle, heap, slotStyles)

StoreValues(heap, values) == StoreEach(StoreSlotStyles, heap, values)

StoreVariants(heap, variants) ==
    LET parent == New(heap, variants)
    IN  [heap  |-> ForEach(LAMBDA h, name :
                               IF variants.map[name] = UNDEF
                               THEN h
                               ELSE LET child == StoreValues(h, variants.map[name])
                                    IN  WriteOrdered(child.heap, parent.value, name,
                                                     child.value),
                           parent.heap, variants.order),
         value |-> parent.value]

StoreEntry(heap, entry) == StoreEach(StoreSlotStyles, heap, entry)

StoreCompounds(heap, compounds) ==
    LET parent == New(heap, compounds)
    IN  [heap  |-> ForEach(LAMBDA h, i :
                               LET child == StoreEntry(h, compounds.items[i])
                               IN  [child.heap EXCEPT ![parent.value.addr].items[i] =
                                                          child.value],
                           parent.heap, [i \in DOMAIN compounds.items |-> i]),
         value |-> parent.value]

StoreField(heap, field, value) ==
    CASE field = "base"             -> StoreSlotStyles(heap, value)
      [] field = "variants"         -> StoreVariants(heap, value)
      [] field = "compoundVariants" -> StoreCompounds(heap, value)
      [] field = "defaultVariants"  -> StoreStyle(heap, value)

\* An author config written as a literal.
StoreConfig(heap, config) ==
    LET parent == New(heap, config)
    IN  [heap  |-> ForEach(LAMBDA h, field :
                               LET child == StoreField(h, field, config[field])
                               IN  Write(child.heap, parent.value, field, child.value),
                           parent.heap, KeysOf(config)),
         value |-> parent.value]

\* --- merge.ts over the heap ---
mergeStyleH(heap, base, override) ==
    New(heap, mergeStyle(heap[base.addr], heap[override.addr]))

mergeSlotStyleWithSelectorsH(heap, base, override) ==
    LET result == New(heap, EmptyObject)
        copied == ForEach(LAMBDA h, key :
                              LET value == h[base.addr][key]
                              IN  IF startsWithPrefix(key) /\ IsRef(value)
                                  THEN LET copy == New(h, h[value.addr])
                                       IN  Write(copy.heap, result.value, key, copy.value)
                                  ELSE Write(h, result.value, key, value),
                          result.heap, KeysOf(heap[base.addr]))
    IN  [heap  |-> ForEach(LAMBDA h, key :
                               LET overrideValue == h[override.addr][key]
                               IN  IF overrideValue = UNDEF
                                   THEN h
                                   ELSE IF startsWithPrefix(key) /\ IsRef(overrideValue)
                                   THEN LET baseSelector == Get(h[result.value.addr], key)
                                        IN  IF IsRef(baseSelector)
                                            THEN LET merged == mergeStyleH(h, baseSelector,
                                                                           overrideValue)
                                                 IN  Write(merged.heap, result.value, key,
                                                           merged.value)
                                            ELSE LET copy == New(h, h[overrideValue.addr])
                                                 IN  Write(copy.heap, result.value, key,
                                                           copy.value)
                                   ELSE Write(h, result.value, key, overrideValue),
                           copied, KeysOf(heap[override.addr])),
         value |-> result.value]

\* mergeSlotStyles that writes the merged slots into the base object itself.
mergeSlotStylesInPlaceH(heap, base, override) ==
    [heap  |-> ForEach(LAMBDA h, slot :
                           LET baseSlot == Get(h[base.addr], slot)
                               overrideSlot == h[override.addr][slot]
                           IN  IF overrideSlot = UNDEF
                               THEN h
                               ELSE IF baseSlot = UNDEF
                               THEN Write(h, base, slot, overrideSlot)
                               ELSE LET merged == mergeSlotStyleWithSelectorsH(h, baseSlot,
                                                                               overrideSlot)
                                    IN  Write(merged.heap, base, slot, merged.value),
                       heap, KeysOf(heap[override.addr])),
     value |-> base]

mergeSlotStylesH(heap, base, override) ==
    LET result == New(heap, heap[base.addr])
    IN  [heap  |-> ForEach(LAMBDA h, slot :
                               LET baseSlot == Get(h[base.addr], slot)
                                   overrideSlot == h[override.addr][slot]
                               IN  IF overrideSlot = UNDEF
                                   THEN h
                                   ELSE IF baseSlot = UNDEF
                                   THEN Write(h, result.value, slot, overrideSlot)
                                   ELSE LET merged == mergeSlotStyleWithSelectorsH(
                                                          h, baseSlot, overrideSlot)
                                        IN  Write(merged.heap, result.value, slot,
                                                  merged.value),
                           result.heap, KeysOf(heap[override.addr])),
         value |-> result.value]

\* overrideValues is UNDEF when the override declares the variant name with no
\* definition.
mergeVariantValuesH(heap, baseValues, overrideValues) ==
    LET result == New(heap, heap[baseValues.addr])
    IN  IF overrideValues = UNDEF
        THEN result
        ELSE [heap  |-> ForEach(LAMBDA h, valueName :
                                    LET baseValue == Get(h[result.value.addr], valueName)
                                        overrideValue == h[overrideValues.addr][valueName]
                                    IN  IF overrideValue = UNDEF
                                        THEN h
                                        ELSE IF baseValue = UNDEF
                                        THEN Write(h, result.value, valueName, overrideValue)
                                        ELSE LET merged == mergeSlotStylesH(h, baseValue,
                                                                            overrideValue)
                                             IN  Write(merged.heap, result.value, valueName,
                                                       merged.value),
                                result.heap, KeysOf(heap[overrideValues.addr])),
              value |-> result.value]

\* baseVariants and overrideVariants are references or UNDEF.
mergeVariantsH(heap, baseVariants, overrideVariants) ==
    IF baseVariants = UNDEF /\ overrideVariants = UNDEF
    THEN New(heap, EmptyOrdered)
    ELSE IF baseVariants = UNDEF
    THEN [heap |-> heap, value |-> overrideVariants]
    ELSE IF overrideVariants = UNDEF
    THEN [heap |-> heap, value |-> baseVariants]
    ELSE LET result == New(heap, heap[baseVariants.addr])
         IN  [heap  |-> ForEach(LAMBDA h, variantName :
                                    LET baseVariant == Get(h[result.value.addr].map,
                                                           variantName)
                                        overrideVariant ==
                                            h[overrideVariants.addr].map[variantName]
                                    IN  IF baseVariant = UNDEF
                                        THEN WriteOrdered(h, result.value, variantName,
                                                          overrideVariant)
                                        ELSE LET merged == mergeVariantValuesH(
                                                               h, baseVariant, overrideVariant)
                                             IN  WriteOrdered(merged.heap, result.value,
                                                              variantName, merged.value),
                                result.heap, heap[overrideVariants.addr].order),
              value |-> result.value]

\* field ?? {}: the field's object, or a new empty one.
FieldOrNew(heap, config, field, empty) ==
    IF Get(heap[config.addr], field) = UNDEF
    THEN New(heap, empty)
    ELSE [heap |-> heap, value |-> heap[config.addr][field]]

\* The content of an optional field that holds a flat object or an array.
FieldContent(heap, config, field, empty) ==
    IF Get(heap[config.addr], field) = UNDEF
    THEN empty
    ELSE heap[heap[config.addr][field].addr]

mergeStyledConfigH(heap, baseConfig, overrideConfig) ==
    LET baseBase == FieldOrNew(heap, baseConfig, "base", EmptyObject)
        overrideBase == FieldOrNew(baseBase.heap, overrideConfig, "base", EmptyObject)
        mergedBase == mergeSlotStylesH(overrideBase.heap, baseBase.value, overrideBase.value)
        mergedVariants == mergeVariantsH(mergedBase.heap,
                                         Get(heap[baseConfig.addr], "variants"),
                                         Get(heap[overrideConfig.addr], "variants"))
        mergedDefaultVariants ==
            New(mergedVariants.heap,
                Spread(FieldContent(heap, baseConfig, "defaultVariants", EmptyObject),
                       FieldContent(heap, overrideConfig, "defaultVariants", EmptyObject)))
        mergedCompoundVariants ==
            New(mergedDefaultVariants.heap,
                Arr(FieldContent(heap, baseConfig, "compoundVariants", Arr(<<>>)).items
                    \o FieldContent(heap, overrideConfig, "compoundVariants",
                                    Arr(<<>>)).items))
    IN  New(mergedCompoundVariants.heap,
            [base             |-> mergedBase.value,
             variants         |-> mergedVariants.value,
             defaultVariants  |-> mergedDefaultVariants.value,
             compoundVariants |-> mergedCompoundVariants.value])

\* --- resolve.ts over the heap ---
processStyledConfigH(heap, config, stateKeys) ==
    LET variants == FieldOrNew(heap, config, "variants", EmptyOrdered)
        base == FieldOrNew(variants.heap, config, "base", EmptyObject)
        compoundVariants == FieldOrNew(base.heap, config, "compoundVariants", Arr(<<>>))
        defaultVariants == FieldOrNew(compoundVariants.heap, config, "defaultVariants",
                                      EmptyObject)
    IN  New(defaultVariants.heap,
            [base             |-> base.value,
             variants         |-> variants.value,
             compoundVariants |-> compoundVariants.value,
             defaultVariants  |-> defaultVariants.value,
             stateKeys        |-> stateKeys,
             variantNameSet   |-> OrderedKeys(defaultVariants.heap[variants.value.addr])])

\* The writes of flattenSlotStyle all go to the object `result` refers to.
flattenSlotStyleH(heap, result, slotStyle, state, stateKeys) ==
    [heap EXCEPT ![result.addr] =
        flattenSlotStyle(@, LoadSlotStyle(heap, slotStyle), heap[state.addr], stateKeys)]

\* applyLayerStyles that puts the layer's own slot object in the output when the
\* output has no object for the slot yet.
applyLayerStylesAliasH(heap, result, slotStyles, state, stateKeys) ==
    ForEach(LAMBDA h, slotName :
                LET slotStyle == h[slotStyles.addr][slotName]
                    slot == Get(h[result.addr], slotName)
                IN  IF slotStyle = UNDEF
                    THEN h
                    ELSE IF slot = UNDEF
                    THEN Write(h, result, slotName, slotStyle)
                    ELSE flattenSlotStyleH(h, slot, slotStyle, state, stateKeys),
            heap, KeysOf(heap[slotStyles.addr]))

applyLayerStylesH(heap, result, slotStyles, state, stateKeys) ==
    ForEach(LAMBDA h, slotName :
                LET slotStyle == h[slotStyles.addr][slotName]
                    slot == Get(h[result.addr], slotName)
                IN  IF slotStyle = UNDEF
                    THEN h
                    ELSE IF slot = UNDEF
                    THEN LET created == New(h, EmptyObject)
                         IN  flattenSlotStyleH(Write(created.heap, result, slotName,
                                                     created.value),
                                               created.value, slotStyle, state, stateKeys)
                    ELSE flattenSlotStyleH(h, slot, slotStyle, state, stateKeys),
            heap, KeysOf(heap[slotStyles.addr]))

\* inlineStyles is UNDEF when the optional argument is not passed.
resolveStylesH(heap, processed, state, variantProps, inlineStyles) ==
    LET config == heap[processed.addr]
        result == New(heap, EmptyObject)
        layer1 == applyLayerStylesH(result.heap, result.value, config.base, state,
                                    config.stateKeys)
        hasVariantProps == Cardinality(DOMAIN heap[variantProps.addr]) > 0
        effectiveVariants ==
            IF hasVariantProps
            THEN New(layer1, Spread(heap[config.defaultVariants.addr],
                                    heap[variantProps.addr]))
            ELSE [heap |-> layer1, value |-> config.defaultVariants]
        selection == effectiveVariants.heap[effectiveVariants.value.addr]
        layer2 ==
            ForEach(LAMBDA h, variantName :
                        LET variantValue == Get(selection, variantName)
                            variantDefinition == h[config.variants.addr].map[variantName]
                            variantStyles ==
                                IF variantDefinition = UNDEF
                                THEN UNDEF
                                ELSE Get(h[variantDefinition.addr], variantValue.value)
                        IN  IF variantValue = UNDEF
                            THEN h
                            ELSE IF variantStyles # UNDEF
                            THEN applyLayerStylesH(h, result.value, variantStyles, state,
                                                   config.stateKeys)
                            ELSE h,
                    effectiveVariants.heap, heap[config.variants.addr].order)
        layer3 ==
            ForEach(LAMBDA h, compoundVariant :
                        IF compoundVariantMatches(LoadEntry(h, compoundVariant), selection)
                        THEN applyLayerStylesH(h, result.value,
                                               h[compoundVariant.addr].styles, state,
                                               config.stateKeys)
                        ELSE h,
                    layer2, heap[config.compoundVariants.addr].items)
    IN  [heap  |-> IF inlineStyles # UNDEF
                   THEN applyLayerStylesH(layer3, result.value, inlineStyles, state,
                                          config.stateKeys)
                   ELSE layer3,
         value |-> result.value]

(***************************************************************************)
(* The component being styled and the inputs of the resolver               *)
(***************************************************************************)
ComponentMeta == [slots |-> <<"root", "label">>, stateKeys |-> <<"active", "focused">>]

Component == [meta |-> ComponentMeta, styled |-> UNDEF]

\* An object that carries no component metadata.
BareComponent == [meta |-> UNDEF, styled |-> UNDEF]

\* Shorthands to write style objects.
Red == Str("red")

Blue == Str("blue")

Root(style) == "root" :> style

Label(style) == "label" :> style

Active(style) == "_active" :> style

Focused(style) == "_focused" :> style

\* An ordered object from its keys in insertion order and its key -> value map.
Ordered(order, map) == [order |-> order, map |-> map]

\* An author config: each optional field is present, or left out when UNDEF.
Field(name, value) == IF value = UNDEF THEN EmptyObject ELSE (name :> value)

Config(base, variants, compoundVariants, defaultVariants) ==
    Field("base", base) @@ Field("variants", variants)
        @@ Field("compoundVariants", compoundVariants)
        @@ Field("defaultVariants", defaultVariants)

\* --- configs whose layers collide on the same slot and property ---
LayeringBases ==
    {Root("fg" :> Red),
     Root(("fg" :> Red) @@ Active("fg" :> Blue)) @@ Label("fg" :> Red),
     Root(Active("fg" :> Red) @@ Focused("fg" :> Blue)),
     Root(("fg" :> UNDEF) @@ ("bg" :> Blue)) @@ Label(UNDEF)}

LayeringVariantStyles ==
    {Root("fg" :> Blue),
     Root(Active("fg" :> Red)) @@ Label("bg" :> Red),
     Root(("fg" :> Blue) @@ ("bg" :> Red) @@ Focused("fg" :> Red))}

LayeringCompoundStyles ==
    {Root("fg" :> Red),
     Root(Active("bg" :> Blue)),
     Root(("fg" :> UNDEF) @@ ("bg" :> Red) @@ Active(UNDEF))}

LayeringConfigs ==
    {Config(base,
            Ordered(<<"intent">>,
                    "intent" :> (("primary" :> primary) @@ ("danger" :> Root("fg" :> Red)))),
            Arr(<<("intent" :> Str("primary")) @@ ("styles" :> compound)>>),
            defaults) :
        base \in LayeringBases, primary \in LayeringVariantStyles,
        compound \in LayeringCompoundStyles,
        defaults \in {UNDEF, "intent" :> Str("primary")}}

\* --- configs with lists of compound variants ---
IntentVariant ==
    ("primary" :> Root("fg" :> Blue))
    @@ ("danger" :> Root(("fg" :> Red) @@ Active("fg" :> Blue)))

SizeVariant ==
    "lg" :> (Root(("fg" :> Red) @@ ("bg" :> Red)) @@ Label(Focused("fg" :> Red)))

CompoundEntries ==
    {"styles" :> Root("fg" :> Red),
     ("intent" :> Str("primary")) @@ ("styles" :> Root(("fg" :> Red) @@ ("bg" :> Blue))),
     ("size" :> Str("lg")) @@ ("styles" :> Root(("fg" :> Blue) @@ Active("bg" :> Red))),
     ("intent" :> Str("danger")) @@ ("size" :> Str("lg")) @@ ("styles" :> Label("fg" :> Blue)),
     ("ghost" :> Str("x")) @@ ("styles" :> Root("bg" :> Blue))}

MaxCompound == 2

\* The lists of at most MaxCompound different entries.
CompoundLists ==
    {Arr(items) :
        items \in {list \in UNION {[1..n -> CompoundEntries] : n \in 0..MaxCompound} :
                      \A i, j \in DOMAIN list : i # j => list[i] # list[j]}}

CompoundConfigs ==
    {Config(Root("fg" :> Red),
            Ordered(<<"intent", "size">>, ("intent" :> IntentVariant) @@ ("size" :> SizeVariant)),
            compounds, defaults) :
        compounds \in CompoundLists,
        defaults \in {UNDEF, ("intent" :> Str("danger")) @@ ("size" :> Str("lg"))}}

\* --- configs with every compound entry and several defaults ---
SelectionConfigs ==
    {Config(Root("fg" :> Red),
            Ordered(<<"intent", "size">>, ("intent" :> IntentVariant) @@ ("size" :> SizeVariant)),
            Arr(<<("intent" :> Str("primary")) @@ ("styles" :> Root(("fg" :> Red) @@ ("bg" :> Blue))),
                  ("size" :> Str("lg")) @@ ("styles" :> Root(("fg" :> Blue) @@ Active("bg" :> Red))),
                  ("intent" :> Str("danger")) @@ ("size" :> Str("lg"))
                      @@ ("styles" :> Label("fg" :> Blue)),
                  "styles" :> Label("bg" :> Red)>>),
            defaults) :
        defaults \in {UNDEF,
                      "intent" :> Str("primary"),
                      ("intent" :> Str("danger")) @@ ("size" :> Str("lg"))}}

\* --- configs that vary the variant table and the defaults ---
VariantTables ==
    {UNDEF,
     Ordered(<<"intent">>, "intent" :> IntentVariant),
     Ordered(<<"intent", "size">>, ("intent" :> IntentVariant) @@ ("size" :> SizeVariant)),
     Ordered(<<"size", "intent">>, ("intent" :> IntentVariant) @@ ("size" :> SizeVariant)),
     Ordered(<<"intent", "size">>, ("intent" :> UNDEF) @@ ("size" :> SizeVariant))}

VariantConfigs ==
    {Config(base, variants, UNDEF, defaults) :
        base \in {UNDEF, Root(("fg" :> Blue) @@ Active("fg" :> Red))},
        variants \in VariantTables,
        defaults \in {UNDEF,
                      "intent" :> Str("danger"),
                      ("intent" :> UNDEF) @@ ("size" :> Str("lg")),
                      ("intent" :> Str("primary")) @@ ("size" :> Str("lg"))}}

AuthorConfigs == LayeringConfigs \cup CompoundConfigs \cup VariantConfigs

InlineChoices ==
    {UNDEF,
     Root(("fg" :> Blue) @@ ("bg" :> UNDEF) @@ Active("fg" :> Red)) @@ Label("bg" :> Blue)}

VariantPropNames == {"intent", "size", "ghost"}

\* The values a render sets a state key to; a key never set is absent.
StateValues(stateKey) == IF stateKey = "active" THEN BOOLEAN ELSE {TRUE}

VariantPropValues(name) ==
    IF name = "intent" THEN {Str("primary"), Str("danger"), Str("bogus"), UNDEF}
    ELSE IF name = "size" THEN {Str("lg")}
    ELSE {Str("x")}

\* --- configs that are composed: each family is the set of configs of one program ---
BaseFamily ==
    {Config(Root("fg" :> Red), UNDEF, UNDEF, UNDEF),
     Config(Root(("fg" :> Blue) @@ Active("fg" :> Red)), UNDEF, UNDEF, UNDEF),
     Config(Root(("fg" :> UNDEF) @@ ("bg" :> Blue) @@ Active(("fg" :> UNDEF) @@ ("bg" :> Red))),
            UNDEF, UNDEF, UNDEF),
     Config(Root(Active(UNDEF) @@ Focused("fg" :> Blue))
            @@ Label(("fg" :> Red) @@ Active(("fg" :> Blue) @@ ("bg" :> Blue))),
            UNDEF, UNDEF, UNDEF),
     Config(Root(UNDEF) @@ Label(("fg" :> Blue) @@ Active("fg" :> Red)), UNDEF, UNDEF, UNDEF),
     Config(UNDEF, UNDEF, UNDEF, UNDEF)}

VariantFamily ==
    {Config(UNDEF,
            Ordered(<<"intent">>, "intent" :> ("primary" :> Root("fg" :> Blue))),
            UNDEF, "intent" :> Str("primary")),
     Config(UNDEF,
            Ordered(<<"intent">>,
                    "intent" :> (("primary" :> Root(("fg" :> Red) @@ Active("fg" :> Blue)))
                                 @@ ("danger" :> Root("fg" :> Red)))),
            UNDEF, "intent" :> Str("danger")),
     Config(UNDEF,
            Ordered(<<"size", "intent">>,
                    ("size" :> ("lg" :> Root("fg" :> Red)))
                    @@ ("intent" :> (("primary" :> UNDEF) @@ ("danger" :> Root("bg" :> Blue))))),
            UNDEF, UNDEF),
     Config(UNDEF,
            Ordered(<<"intent", "size">>,
                    ("intent" :> UNDEF) @@ ("size" :> ("lg" :> Root("bg" :> Blue)))),
            UNDEF, ("intent" :> UNDEF) @@ ("size" :> Str("lg"))),
     Config(Root("fg" :> Red), UNDEF, UNDEF, "size" :> Str("lg"))}

CompoundFamily ==
    {Config(UNDEF,
            Ordered(<<"intent">>, "intent" :> IntentVariant),
            Arr(<<("intent" :> Str("primary"))
                  @@ ("styles" :> Root(("fg" :> Red) @@ ("bg" :> Blue)))>>),
            "intent" :> Str("primary")),
     Config(UNDEF, UNDEF,
            Arr(<<("intent" :> Str("primary"))
                  @@ ("styles" :> Root(("fg" :> Blue) @@ Active("fg" :> Red)))>>),
            UNDEF),
     Config(UNDEF,
            Ordered(<<"size">>, "size" :> SizeVariant),
            Arr(<<("intent" :> Str("primary")) @@ ("size" :> Str("lg"))
                     @@ ("styles" :> Root("bg" :> Red)),
                  "styles" :> Root("bg" :> Blue)>>),
            "size" :> Str("lg")),
     Config(Root("bg" :> Blue), UNDEF, UNDEF, "intent" :> Str("danger")),
     Config(UNDEF, UNDEF, UNDEF, UNDEF)}

MixedFamily ==
    {Config(Root("fg" :> Red),
            Ordered(<<"intent">>, "intent" :> ("primary" :> Root("fg" :> Blue))),
            UNDEF, "intent" :> Str("primary")),
     Config(Root(("fg" :> Blue) @@ Active("fg" :> Red)), UNDEF, UNDEF, UNDEF),
     Config(UNDEF,
            Ordered(<<"intent">>, "intent" :> ("primary" :> Root("bg" :> Red))),
            Arr(<<("intent" :> Str("primary")) @@ ("styles" :> Root("fg" :> Red))>>),
            UNDEF),
     Config(Root("fg" :> Red), UNDEF, UNDEF, "intent" :> UNDEF),
     Config(Label("fg" :> Red),
            Ordered(<<"size">>, "size" :> ("lg" :> Root("fg" :> Red))),
            UNDEF, "size" :> Str("lg"))}

\* --- configs of a component used through a framework wrapper, which is given
\* --- all the props and splits them
TwoSelectors == Active(("fg" :> Blue) @@ ("bg" :> Red)) @@ Focused("fg" :> Red)

WrappedConfigs ==
    {Config(UNDEF, UNDEF, UNDEF, UNDEF),
     Config(Root(("fg" :> Blue) @@ TwoSelectors) @@ Label(Focused("bg" :> Blue)),
            UNDEF, UNDEF, UNDEF),
     Config(UNDEF,
            Ordered(<<"intent">>,
                    "intent" :> (("primary" :> Root(TwoSelectors))
                                 @@ ("danger" :> Root("fg" :> Red)))),
            UNDEF, UNDEF),
     Config(Root(("fg" :> Blue) @@ Active("fg" :> Red)),
            Ordered(<<"size", "intent">>, ("intent" :> IntentVariant) @@ ("size" :> SizeVariant)),
            Arr(<<("size" :> Str("lg")) @@ ("styles" :> Root(TwoSelectors))>>),
            "intent" :> Str("primary")),
     Config(Root(Focused("fg" :> Blue) @@ Active("fg" :> Red)),
            Ordered(<<"title">>, "title" :> ("hello" :> Label("fg" :> Blue))),
            Arr(<<>>), EmptyObject)}

WrapperPropNames == {"intent", "size", "title"}

WrapperPropValues(name) ==
    IF name = "intent" THEN {Str("primary"), Str("danger"), UNDEF}
    ELSE IF name = "size" THEN {Str("lg")}
    ELSE {Str("hello"), UNDEF}

\* The deepest chain of createStyled calls.
MaxChain == 3

\* --- configs of a program whose objects are followed in memory: they meet on
\* --- slots, selectors, variant names, variant values and compound conditions
SharedConfigs ==
    <<Config(Root(("fg" :> Red) @@ Active("fg" :> Blue)) @@ Label("fg" :> Red),
             Ordered(<<"intent">>,
                     "intent" :> ("primary" :> Root(("fg" :> Blue) @@ Active("bg" :> Red)))),
             Arr(<<("intent" :> Str("primary")) @@ ("styles" :> Root("bg" :> Blue))>>),
             "intent" :> Str("primary")),
      Config(Root(("fg" :> Blue) @@ ("bg" :> UNDEF) @@ Active("bg" :> Red)
                  @@ Focused("fg" :> Red)),
             Ordered(<<"size", "intent">>,
                     ("size" :> ("lg" :> Label("fg" :> Blue)))
                     @@ ("intent" :> (("primary" :> Root(Active("fg" :> Red)))
                                      @@ ("danger" :> Root("fg" :> Red))))),
             Arr(<<("intent" :> Str("primary")) @@ ("size" :> Str("lg"))
                   @@ ("styles" :> Label(("bg" :> Red) @@ Focused("bg" :> Blue)))>>),
             "size" :> Str("lg")),
      Config(Label(Active("fg" :> Blue)) @@ Root(UNDEF), UNDEF, UNDEF, UNDEF)>>

\* The merges a run makes after the author's configs are written.
MaxMerged == 2

SharedStates == {"active" :> TRUE, ("active" :> TRUE) @@ ("focused" :> TRUE)}

SharedVariantProps == {EmptyObject, ("intent" :> Str("primary")) @@ ("size" :> Str("lg"))}

SharedInlineStyles ==
    {UNDEF, Root(("fg" :> Blue) @@ Active("bg" :> Red)) @@ Label(Focused("fg" :> Red))}

ComposeStates ==
    {EmptyObject, "active" :> TRUE, ("active" :> TRUE) @@ ("focused" :> TRUE)}

ComposeVariantProps ==
    {EmptyObject,
     "intent" :> Str("primary"),
     "intent" :> Str("danger"),
     ("intent" :> Str("primary")) @@ ("size" :> Str("lg"))}

(***************************************************************************)
(* A styled component: its definition is made by createStyled, possibly    *)
(* over an earlier definition, and the style resolver is run again         *)
(* whenever the definition, the component state, the variant props or the  *)
(* inline style change.                                                    *)
(*   program     which program runs: it names the author configs the       *)
(*               program passes to createStyled (ConfigsOf)                *)
(*   chain       the configs passed so far, innermost first                *)
(*   definition  the styled definition made by the last createStyled call  *)
(*   props       all the props a framework wrapper was given last          *)
(*   forwardProps  the props the wrapper passes on to the component        *)
(*   thrown      what the last createStyled call threw, undefined when it  *)
(*               returned                                                  *)
(***************************************************************************)
VARIABLES program, chain, definition, state, variantProps, inlineStyles, result,
          props, forwardProps, thrown, heap, configRefs, call, renders,
          manager, container, ctx, dialogCall, checkbox, checkboxCall,
          toast, toastCall, toaster

vars == <<program, chain, definition, state, variantProps, inlineStyles, result,
          props, forwardProps, thrown, heap, configRefs, call, renders,
          manager, container, ctx, dialogCall, checkbox, checkboxCall,
          toast, toastCall, toaster>>

wrapperVars == <<props, forwardProps>>

factoryVars == <<thrown>>

heapVars == <<heap, configRefs, call>>

\* No call made yet.
NoCall == [op |-> "none"]

instanceVars == <<renders>>

dialogVars == <<manager, container, ctx, dialogCall>>

checkboxVars == <<checkbox, checkboxCall>>

toastVars == <<toast, toastCall>>

toasterVars == <<toaster>>

\* The variables of the programs that use the widgets.
widgetVars == <<dialogVars, checkboxVars, toastVars, toasterVars>>

\* The variables of the programs that do not create styled definitions.
laterVars == <<instanceVars, widgetVars>>

\* No dialog manager exists.
NoDialog ==
    /\ manager = UNDEF
    /\ container = UNDEF
    /\ ctx = UNDEF
    /\ dialogCall = NoCall

\* No checkbox exists.
NoCheckbox ==
    /\ checkbox = UNDEF
    /\ checkboxCall = NoCall

\* No toast and no toaster exists.
NoToast ==
    /\ toast = UNDEF
    /\ toastCall = NoCall

NoToaster ==
    /\ toaster = UNDEF

\* No widget exists.
InitWidgets ==
    /\ NoDialog
    /\ NoCheckbox
    /\ NoToast
    /\ NoToaster

InitLater ==
    /\ renders = <<>>
    /\ InitWidgets

\* The variables of the parts that are not running while the resolver is driven
\* directly.
restVars == <<wrapperVars, factoryVars, heapVars, laterVars>>

InitRest ==
    /\ props = EmptyObject
    /\ forwardProps = EmptyObject
    /\ thrown = UNDEF
    /\ heap = <<>>
    /\ configRefs = <<>>
    /\ call = NoCall
    /\ InitLater

\* The variables of the resolver, the chain and the definition.
resolverVars == <<program, chain, definition, state, variantProps, inlineStyles, result>>

\* The variables of the programs that use the style engine.
engineVars == <<resolverVars, wrapperVars, factoryVars, heapVars, instanceVars>>

\* No styled definition exists.
InitEngine ==
    /\ program = "none"
    /\ chain = <<>>
    /\ definition = UNDEF
    /\ state = EmptyObject
    /\ variantProps = EmptyObject
    /\ inlineStyles = UNDEF
    /\ result = EmptyObject
    /\ props = EmptyObject
    /\ forwardProps = EmptyObject
    /\ thrown = UNDEF
    /\ heap = <<>>
    /\ configRefs = <<>>
    /\ call = NoCall
    /\ renders = <<>>

\* What the resolver is given: the processed config of the definition.
processed == definition.processed

ConfigsOf(name) ==
    CASE name = "authors"   -> AuthorConfigs
      [] name = "bases"     -> BaseFamily
      [] name = "variants"  -> VariantFamily
      [] name = "compounds" -> CompoundFamily
      [] name = "mixed"     -> MixedFamily
      [] name = "wrapped"   -> WrappedConfigs
      [] name = "selections" -> SelectionConfigs

ComposedPrograms == {"bases", "variants", "compounds", "mixed"}

InitWith(name) ==
    /\ program = name
    /\ \E config \in ConfigsOf(name) :
          /\ chain = <<config>>
          /\ definition = createStyled(Component, config)
    /\ state = EmptyObject
    /\ variantProps = EmptyObject
    /\ inlineStyles = UNDEF
    /\ result = resolveStyles(processed, state, variantProps, inlineStyles)
    /\ InitRest

Init == InitWith("authors")

SetState(stateKey, value) ==
    /\ state' = Put(state, stateKey, value)
    /\ result' = resolveStyles(processed, state', variantProps, inlineStyles)
    /\ UNCHANGED <<program, chain, definition, variantProps, inlineStyles>>
    /\ UNCHANGED restVars

SetVariantProp(name, value) ==
    /\ variantProps' = Put(variantProps, name, value)
    /\ result' = resolveStyles(processed, state, variantProps', inlineStyles)
    /\ UNCHANGED <<program, chain, definition, state, inlineStyles>>
    /\ UNCHANGED restVars

RemoveVariantProp(name) ==
    /\ name \in DOMAIN variantProps
    /\ variantProps' = Without(variantProps, name)
    /\ result' = resolveStyles(processed, state, variantProps', inlineStyles)
    /\ UNCHANGED <<program, chain, definition, state, inlineStyles>>
    /\ UNCHANGED restVars

SetInlineStyles(style) ==
    /\ inlineStyles' = style
    /\ result' = resolveStyles(processed, state, variantProps, inlineStyles')
    /\ UNCHANGED <<program, chain, definition, state, variantProps>>
    /\ UNCHANGED restVars

Next ==
    \/ \E stateKey \in {"active", "focused"} : \E value \in StateValues(stateKey) :
          SetState(stateKey, value)
    \/ \E name \in VariantPropNames : \E value \in VariantPropValues(name) :
          SetVariantProp(name, value)
    \/ \E name \in VariantPropNames : RemoveVariantProp(name)
    \/ \E style \in InlineChoices : SetInlineStyles(style)

Spec == Init /\ [][Next]_vars

\* createStyled over the current definition: styled(styled(X, A), B).
Compose(config) ==
    /\ Len(chain) < MaxChain
    /\ definition' = createStyled(definition, config)
    /\ chain' = Append(chain, config)
    /\ result' = resolveStyles(definition'.processed, state, variantProps, inlineStyles)
    /\ UNCHANGED <<program, state, variantProps, inlineStyles>>
    /\ UNCHANGED restVars

\* The component is rendered with another state and other variant props.
Render(newState, newVariantProps) ==
    /\ state' = newState
    /\ variantProps' = newVariantProps
    /\ result' = resolveStyles(processed, state', variantProps', inlineStyles)
    /\ UNCHANGED <<program, chain, definition, inlineStyles>>
    /\ UNCHANGED restVars

InitCompose == \E name \in ComposedPrograms : InitWith(name)

NextCompose ==
    \/ \E config \in ConfigsOf(program) : Compose(config)
    \/ \E newState \in ComposeStates, newVariantProps \in ComposeVariantProps :
          Render(newState, newVariantProps)

SpecCompose == InitCompose /\ [][NextCompose]_vars

\* The wrapper is rendered with a prop set: it splits the props by the variant
\* names of the definition, resolves with the variant props and passes the
\* others on.
SetProp(name, value) ==
    /\ props' = Put(props, name, value)
    /\ LET split == splitVariantProps(props', getVariantNames(processed))
       IN  /\ variantProps' = split[1]
           /\ forwardProps' = split[2]
    /\ result' = resolveStyles(processed, state, variantProps', inlineStyles)
    /\ UNCHANGED <<program, chain, definition, state, inlineStyles>>
    /\ UNCHANGED <<factoryVars, heapVars, laterVars>>

\* The wrapper is rendered with a prop left out.
RemoveProp(name) ==
    /\ name \in DOMAIN props
    /\ props' = Without(props, name)
    /\ LET split == splitVariantProps(props', getVariantNames(processed))
       IN  /\ variantProps' = split[1]
           /\ forwardProps' = split[2]
    /\ result' = resolveStyles(processed, state, variantProps', inlineStyles)
    /\ UNCHANGED <<program, chain, definition, state, inlineStyles>>
    /\ UNCHANGED <<factoryVars, heapVars, laterVars>>

InitProps == InitWith("wrapped")

NextProps ==
    \/ \E name \in WrapperPropNames : \E value \in WrapperPropValues(name) : SetProp(name, value)
    \/ \E name \in WrapperPropNames : RemoveProp(name)
    \/ \E stateKey \in {"active", "focused"}, value \in BOOLEAN : SetState(stateKey, value)
    \/ \E style \in InlineChoices : SetInlineStyles(style)

SpecProps == InitProps /\ [][NextProps]_vars

\* The targets a program passes to createStyled: a component, an object with
\* no metadata, or the definition made by the call before.
Targets == {Component, BareComponent, definition}

\* A createStyled call: when it throws, no definition is returned and the
\* program keeps the one it has; when it returns, the program goes on with the
\* new definition.
Styled(target, config) ==
    /\ target = definition => Len(chain) < MaxChain
    /\ LET outcome == tryCreateStyled(target, config)
       IN  /\ thrown' = outcome.threw
           /\ IF outcome.threw # UNDEF
              THEN UNCHANGED <<chain, definition, result>>
              ELSE /\ definition' = outcome.returned
                   /\ chain' = IF target = definition THEN Append(chain, config) ELSE <<config>>
                   /\ result' = resolveStyles(definition'.processed, state, variantProps,
                                              inlineStyles)
    /\ UNCHANGED <<program, state, variantProps, inlineStyles>>
    /\ UNCHANGED <<wrapperVars, heapVars, laterVars>>

InitFactory == InitWith("wrapped")

NextFactory == \E target \in Targets, config \in ConfigsOf(program) : Styled(target, config)

SpecFactory == InitFactory /\ [][NextFactory]_vars

(***************************************************************************)
(* Definitions used to state the properties of the resolver                *)
(***************************************************************************)
SlotNames == {"root", "label"}

PropNames == {"fg", "bg"}

StateKeyNames == {"active", "focused"}

\* slot styles `out` give property prop of slot a value
Sets(out, slot, prop) == slot \in DOMAIN out /\ prop \in DOMAIN out[slot]

effectiveVariants == effectiveVariantsOf(processed, variantProps)

\* What each of the four layers writes when it is applied on its own.
BaseLayer == applyLayerStyles(EmptyObject, processed.base, state, processed.stateKeys)

VariantLayer ==
    applyVariants(EmptyObject, processed, effectiveVariants, processed.variants.order, state)

CompoundLayer ==
    applyCompoundVariants(EmptyObject, processed.compoundVariants.items, effectiveVariants,
                          state, processed.stateKeys)

InlineLayer ==
    IF inlineStyles = UNDEF
    THEN EmptyObject
    ELSE applyLayerStyles(EmptyObject, inlineStyles, state, processed.stateKeys)

Layers == <<BaseLayer, VariantLayer, CompoundLayer, InlineLayer>>

\* C1: for every slot and property, the resolved output carries the value of
\* the last layer, in the order base < variants < compound < inline, that sets
\* the property to a defined value.
C1_LayerOrder ==
    \A slot \in SlotNames, prop \in PropNames : \A i \in 1..4 :
        (/\ Sets(Layers[i], slot, prop)
         /\ \A j \in (i+1)..4 : ~Sets(Layers[j], slot, prop))
        => /\ Sets(result, slot, prop)
           /\ result[slot][prop] = Layers[i][slot][prop]

\* Base, variant, compound and inline layer all set the same property of a slot,
\* the compound and the inline layer to different values, and the output has the
\* inline value.
C1_Witness ==
    \E slot \in SlotNames, prop \in PropNames :
        /\ \A i \in 1..4 : Sets(Layers[i], slot, prop)
        /\ Layers[3][slot][prop] # Layers[4][slot][prop]
        /\ Layers[1][slot][prop] # Layers[2][slot][prop]
        /\ result[slot][prop] = Layers[4][slot][prop]

SelectorKey(stateKey) == STATE_SELECTOR_PREFIX \o stateKey

IsActive(stateKey) == stateKey \in DOMAIN state /\ state[stateKey] = TRUE

\* Slot styles with the selector `key` removed from every slot.
StripSlotStyles(slotStyles, key) ==
    IF slotStyles = UNDEF
    THEN UNDEF
    ELSE [slot \in DOMAIN slotStyles |->
             IF slotStyles[slot] = UNDEF THEN UNDEF ELSE Without(slotStyles[slot], key)]

StripVariantDefinition(variantDefinition, key) ==
    IF variantDefinition = UNDEF
    THEN UNDEF
    ELSE [value \in DOMAIN variantDefinition |->
             StripSlotStyles(variantDefinition[value], key)]

StripCompoundVariant(entry, key) ==
    [k \in DOMAIN entry |-> IF k = "styles" THEN StripSlotStyles(entry[k], key) ELSE entry[k]]

\* The processed config with the selector `key` removed from every layer style.
StripProcessed(proc, key) ==
    [base             |-> StripSlotStyles(proc.base, key),
     variants         |-> [order |-> proc.variants.order,
                           map   |-> [name \in DOMAIN proc.variants.map |->
                                         StripVariantDefinition(proc.variants.map[name], key)]],
     compoundVariants |-> Arr([i \in DOMAIN proc.compoundVariants.items |->
                                  StripCompoundVariant(proc.compoundVariants.items[i], key)]),
     defaultVariants  |-> proc.defaultVariants,
     stateKeys        |-> proc.stateKeys,
     variantNameSet   |-> proc.variantNameSet]

\* Every layer style of the config, and the inline style.
AllLayerStyles ==
    ({processed.base, inlineStyles}
     \cup UNION {{processed.variants.map[name][value] :
                     value \in DOMAIN processed.variants.map[name]} :
                 name \in {n \in DOMAIN processed.variants.map :
                              processed.variants.map[n] # UNDEF}}
     \cup {processed.compoundVariants.items[i].styles :
              i \in DOMAIN processed.compoundVariants.items})
    \ {UNDEF}

\* some layer style carries the selector of stateKey on the slot
Carries(slot, stateKey) ==
    \E layer \in AllLayerStyles :
        /\ slot \in DOMAIN layer /\ layer[slot] # UNDEF
        /\ SelectorKey(stateKey) \in DOMAIN layer[slot]

\* a state key declared after stateKey is active and its selector sets prop
LaterSelectorSets(slotStyle, stateKey, prop) ==
    \E i, j \in DOMAIN processed.stateKeys :
        /\ processed.stateKeys[i] = stateKey /\ i < j
        /\ IsActive(processed.stateKeys[j])
        /\ LET later == Get(slotStyle, SelectorKey(processed.stateKeys[j]))
           IN  later # UNDEF /\ Get(later, prop) # UNDEF

\* C2: the properties of a selector _k reach the output if and only if state[k]
\* is true (absent counts as false): when it is not true the output is the one of
\* the config with every _k selector removed; when it is true every defined
\* property of a _k selector is written by its layer style (with the selector's
\* value unless a later-declared active selector of the same style sets it);
\* and whatever value state[k] is given, the slots that carry no _k selector
\* resolve to what they resolve to now.
C2_SelectorGating ==
    \A stateKey \in StateKeyNames :
        /\ ~IsActive(stateKey) =>
              result = resolveStyles(StripProcessed(processed, SelectorKey(stateKey)), state,
                                     variantProps,
                                     StripSlotStyles(inlineStyles, SelectorKey(stateKey)))
        /\ IsActive(stateKey) =>
              \A layer \in AllLayerStyles : \A slot \in DOMAIN layer :
                  LET selector == IF layer[slot] = UNDEF THEN UNDEF
                                  ELSE Get(layer[slot], SelectorKey(stateKey))
                      flat == flattenSlotStyle(EmptyObject, layer[slot], state,
                                               processed.stateKeys)
                  IN  selector # UNDEF =>
                         \A prop \in DOMAIN selector :
                             selector[prop] # UNDEF =>
                                /\ prop \in DOMAIN flat
                                /\ \/ flat[prop] = selector[prop]
                                   \/ LaterSelectorSets(layer[slot], stateKey, prop)
        /\ \A value \in BOOLEAN : \A slot \in SlotNames :
              ~Carries(slot, stateKey) =>
                 Get(resolveStyles(processed, Put(state, stateKey, value), variantProps,
                                   inlineStyles), slot) = Get(result, slot)

\* "active" is true, the output of root comes from an _active selector and
\* differs from the output with active false, while label, which carries no
\* _active selector, has an output.
C2_Witness ==
    /\ IsActive("active")
    /\ Carries("root", "active") /\ ~Carries("label", "active")
    /\ "label" \in DOMAIN result /\ "root" \in DOMAIN result
    /\ result # resolveStyles(processed, Put(state, "active", FALSE), variantProps,
                              inlineStyles)
    /\ result # resolveStyles(StripProcessed(processed, "_active"), state, variantProps,
                              StripSlotStyles(inlineStyles, "_active"))

compoundItems == processed.compoundVariants.items

Matching == {i \in DOMAIN compoundItems :
                compoundVariantMatches(compoundItems[i], effectiveVariants)}

\* What one compound entry writes when applied on its own.
EntryLayer(i) ==
    applyLayerStyles(EmptyObject, compoundItems[i].styles, state, processed.stateKeys)

\* C4: every matching compound entry is applied, in list order: a property set
\* by a matching entry and by no matching entry listed after it (nor by the
\* inline style) has that entry's value in the output.
C4_CompoundAllMatch ==
    \A slot \in SlotNames, prop \in PropNames : \A i \in Matching :
        (/\ Sets(EntryLayer(i), slot, prop)
         /\ \A j \in Matching : j > i => ~Sets(EntryLayer(j), slot, prop)
         /\ ~Sets(InlineLayer, slot, prop))
        => /\ Sets(result, slot, prop)
           /\ result[slot][prop] = EntryLayer(i)[slot][prop]

\* Two entries match; both set fg of root, to different values, and the output
\* has the later one's; the earlier one alone sets bg of root and the output has it.
C4_Witness ==
    \E i, j \in Matching :
        /\ i < j
        /\ DOMAIN compoundItems[i] \cap DOMAIN compoundItems[j] = {"styles"}
        /\ Sets(EntryLayer(i), "root", "fg") /\ Sets(EntryLayer(j), "root", "fg")
        /\ EntryLayer(i)["root"]["fg"] # EntryLayer(j)["root"]["fg"]
        /\ result["root"]["fg"] = EntryLayer(j)["root"]["fg"]
        /\ Sets(EntryLayer(i), "root", "bg") /\ ~Sets(EntryLayer(j), "root", "bg")
        /\ Sets(VariantLayer, "root", "bg")
              => VariantLayer["root"]["bg"] # EntryLayer(i)["root"]["bg"]
        /\ result["root"]["bg"] = EntryLayer(i)["root"]["bg"]

HasNoConditions(entry) == DOMAIN entry = {"styles"}

WithCompoundVariants(proc, items) == [proc EXCEPT !.compoundVariants = Arr(items)]

\* C5: a compound entry with no condition keys is never applied: the output is
\* the one of the config without these entries.
C5_NoConditionNeverApplies ==
    result = resolveStyles(
                 WithCompoundVariants(processed,
                     SelectSeq(compoundItems, LAMBDA entry : ~HasNoConditions(entry))),
                 state, variantProps, inlineStyles)

\* The config has an entry with no condition keys whose styles would change the
\* output if they were applied.
C5_Witness ==
    \E i \in DOMAIN compoundItems :
        /\ HasNoConditions(compoundItems[i])
        /\ applyLayerStyles(result, compoundItems[i].styles, state, processed.stateKeys)
              # result
        /\ Matching # {}
        /\ DOMAIN variantProps # {}

\* C8: a variant selection whose name the config's variants do not declare has
\* no effect: the output is the one without that selection.
C8_UnknownSelectionIgnored ==
    \A name \in (DOMAIN variantProps) \ processed.variantNameSet :
        result = resolveStyles(processed, state, Without(variantProps, name), inlineStyles)

\* C9: a variant left out of the selections that has a defaultVariants entry
\* resolves as if the default value were passed, with or without other selections.
C9_DefaultFallback ==
    \A name \in (DOMAIN processed.defaultVariants) \ (DOMAIN variantProps) :
        result = resolveStyles(processed, state,
                               Put(variantProps, name, processed.defaultVariants[name]),
                               inlineStyles)

\* Other selections are passed, intent is left out and has a declared default
\* whose style shows in the output.
C9_Witness ==
    /\ DOMAIN variantProps # {} /\ "intent" \notin DOMAIN variantProps
    /\ "intent" \in processed.variantNameSet
    /\ Get(processed.defaultVariants, "intent") # UNDEF
    /\ result # resolveStyles([processed EXCEPT !.defaultVariants = Without(@, "intent")],
                              state, variantProps, inlineStyles)

\* The processed config with one variant taken out of the variant table.
RemoveVariant(proc, name) ==
    [proc EXCEPT !.variants = [order |-> SelectSeq(@.order, LAMBDA n : n # name),
                               map   |-> Without(@.map, name)]]

\* name is selected with a value its definition does not declare
SelectsUndeclaredValue(name) ==
    /\ name \in DOMAIN variantProps /\ variantProps[name] # UNDEF
    /\ LET variantDefinition == processed.variants.map[name]
       IN  \/ variantDefinition = UNDEF
           \/ Get(variantDefinition, variantProps[name].value) = UNDEF

\* C10: a variant selected with a value that is not declared contributes no
\* style, its default value's style included: the output is the one of the config
\* without that variant, under the same selections.
C10_UndeclaredValueWins ==
    \A name \in processed.variantNameSet :
        SelectsUndeclaredValue(name) =>
            result = resolveStyles(RemoveVariant(processed, name), state, variantProps,
                                   inlineStyles)

\* intent is selected with an undeclared value, has a declared default, and the
\* output differs from the one the default gives.
C10_Witness ==
    /\ "intent" \in processed.variantNameSet /\ SelectsUndeclaredValue("intent")
    /\ LET default == Get(processed.defaultVariants, "intent")
       IN  /\ default # UNDEF
           /\ processed.variants.map["intent"] # UNDEF
           /\ Get(processed.variants.map["intent"], default.value) # UNDEF
    /\ result # resolveStyles(processed, state, Without(variantProps, "intent"), inlineStyles)

(***************************************************************************)
(* Definitions used to state the properties of merging and composition     *)
(***************************************************************************)
RECURSIVE composeAll(_, _)
\* createStyled applied along a list of configs, innermost first
composeAll(component, configList) ==
    IF configList = <<>>
    THEN component
    ELSE composeAll(createStyled(component, Head(configList)), Tail(configList))

\* The output of an author config under the current state and selections.
ResolveConfig(config) ==
    resolveStyles(processStyledConfig(config, ComponentMeta.stateKeys), state, variantProps,
                  inlineStyles)

\* C3: merging three configs as A, (B, C) or as (A, B), C gives the same
\* per-slot output once normalized and resolved.
C3_MergeAssociative ==
    Len(chain) >= 3 =>
        ResolveConfig(mergeStyledConfig(chain[1], mergeStyledConfig(chain[2], chain[3])))
        = ResolveConfig(mergeStyledConfig(mergeStyledConfig(chain[1], chain[2]), chain[3]))

\* Three different configs are merged and each of them shows in the output: the
\* output differs from the one of any two of them.
C3_Witness ==
    /\ Len(chain) >= 3
    /\ chain[1] # chain[2] /\ chain[2] # chain[3] /\ chain[1] # chain[3]
    /\ LET all == ResolveConfig(mergeStyledConfig(chain[1],
                                                  mergeStyledConfig(chain[2], chain[3])))
       IN  /\ all # ResolveConfig(mergeStyledConfig(chain[1], chain[2]))
           /\ all # ResolveConfig(mergeStyledConfig(chain[1], chain[3]))
           /\ all # ResolveConfig(mergeStyledConfig(chain[2], chain[3]))
           /\ all = result

\* Wherever the override holds undefined under a key and the base a defined
\* value, the merged object holds the base's value.
KeepsDefined(base, override, merged) ==
    \A key \in DOMAIN override :
        (override[key] = UNDEF /\ Get(base, key) # UNDEF) => Get(merged, key) = base[key]

\* KeepsDefined for the plain properties and the selectors of a slot style, and
\* for the properties inside the selectors both sides define.
SlotStyleKeepsDefined(base, override, merged) ==
    /\ KeepsDefined(base, override, merged)
    /\ \A key \in (DOMAIN base) \cap (DOMAIN override) :
          (/\ startsWithPrefix(key)
           /\ base[key] # UNDEF /\ override[key] # UNDEF)
          => KeepsDefined(base[key], override[key], merged[key])

\* KeepsDefined for the slots of slot styles, and inside the slots both sides define.
SlotStylesKeepDefined(base, override, merged) ==
    /\ KeepsDefined(base, override, merged)
    /\ \A slot \in (DOMAIN base) \cap (DOMAIN override) :
          (base[slot] # UNDEF /\ override[slot] # UNDEF)
          => SlotStyleKeepsDefined(base[slot], override[slot], merged[slot])

VariantsKeepDefined(base, override, merged) ==
    /\ KeepsDefined(base.map, override.map, merged.map)
    /\ \A name \in (DOMAIN base.map) \cap (DOMAIN override.map) :
          (base.map[name] # UNDEF /\ override.map[name] # UNDEF)
          => /\ KeepsDefined(base.map[name], override.map[name], merged.map[name])
             /\ \A value \in (DOMAIN base.map[name]) \cap (DOMAIN override.map[name]) :
                   (base.map[name][value] # UNDEF /\ override.map[name][value] # UNDEF)
                   => SlotStylesKeepDefined(base.map[name][value],
                                            override.map[name][value],
                                            merged.map[name][value])

\* The last createStyled call merged lastOverride over lastBase into
\* definition.config; lastBase is baseAsConfig, read from the inner definition's
\* processed config.
lastBase ==
    LET baseConfig == definition.component.styled
    IN  [base             |-> baseConfig.base,
         variants         |-> baseConfig.variants,
         compoundVariants |-> baseConfig.compoundVariants,
         defaultVariants  |-> baseConfig.defaultVariants]

lastOverride == chain[Len(chain)]

BothDefine(field) == Get(lastBase, field) # UNDEF /\ Get(lastOverride, field) # UNDEF

\* C6 without the defaultVariants entries: an undefined slot, plain property,
\* selector, selector property, variant or variant value of the override leaves
\* the base's defined value in the merged config.
UndefinedKeepsStylesAndVariants ==
    Len(chain) >= 2 =>
        /\ BothDefine("base") =>
              SlotStylesKeepDefined(lastBase.base, lastOverride.base, definition.config.base)
        /\ BothDefine("variants") =>
              VariantsKeepDefined(lastBase.variants, lastOverride.variants,
                                  definition.config.variants)

\* C6: an undefined value anywhere in the override config (a slot, a plain slot
\* property, a property inside a state selector, a variant value, a
\* defaultVariants entry) leaves the base's defined value in the merged config.
C6_UndefinedNeverErases ==
    /\ UndefinedKeepsStylesAndVariants
    /\ (Len(chain) >= 2 /\ BothDefine("defaultVariants")) =>
          KeepsDefined(lastBase.defaultVariants, lastOverride.defaultVariants,
                       definition.config.defaultVariants)

(***************************************************************************)
(* Composition precedence.  A place of a config is where a style value is  *)
(* written: in `base` or in one value of one variant, in a slot, either    *)
(* plainly or under one state selector, under a property name.             *)
(***************************************************************************)
ConfigLayers ==
    {[variant |-> "", value |-> ""]}
    \cup {[variant |-> "intent", value |-> value] : value \in {"primary", "danger"}}
    \cup {[variant |-> "size", value |-> "lg"]}

Places ==
    [layer : ConfigLayers, slot : SlotNames,
     selector : {""} \cup {SelectorKey(stateKey) : stateKey \in StateKeyNames},
     prop : PropNames]

\* o?.[k]
At(o, k) == IF o = UNDEF THEN UNDEF ELSE Get(o, k)

\* The slot styles a config holds in a layer, undefined when it has none.
LayerStyles(config, layer) ==
    IF layer.variant = ""
    THEN Get(config, "base")
    ELSE LET variants == Get(config, "variants")
         IN  IF variants = UNDEF
             THEN UNDEF
             ELSE At(At(variants.map, layer.variant), layer.value)

\* The value a config holds at a place, undefined when it holds none.
ValueAt(config, place) ==
    LET slotStyle == At(LayerStyles(config, place.layer), place.slot)
        holder == IF place.selector = "" THEN slotStyle ELSE At(slotStyle, place.selector)
    IN  At(holder, place.prop)

EraseInSlotStyles(slotStyles, place) ==
    [slotStyles EXCEPT ![place.slot] =
        IF place.selector = ""
        THEN [@ EXCEPT ![place.prop] = UNDEF]
        ELSE [@ EXCEPT ![place.selector] = [@ EXCEPT ![place.prop] = UNDEF]]]

\* The config with the value at a place it defines replaced by undefined.
Erase(config, place) ==
    IF place.layer.variant = ""
    THEN [config EXCEPT !["base"] = EraseInSlotStyles(@, place)]
    ELSE [config EXCEPT !["variants"] =
            [@ EXCEPT !.map =
                [@ EXCEPT ![place.layer.variant] =
                    [@ EXCEPT ![place.layer.value] = EraseInSlotStyles(@, place)]]]]

RECURSIVE chainCompounds(_)
\* The compound variants of a list of configs, one config after the other.
chainCompounds(configList) ==
    IF configList = <<>>
    THEN <<>>
    ELSE OrElse(Head(configList), "compoundVariants", Arr(<<>>)).items
         \o chainCompounds(Tail(configList))

\* What one config of the chain supplies by itself under the current state and
\* the variant values in effect for the composed definition.
Alone(config) ==
    resolveStyles(processStyledConfig([config EXCEPT !["defaultVariants"] = UNDEF],
                                      ComponentMeta.stateKeys),
                  state, effectiveVariants, UNDEF)

Supplies(config, slot, prop) == Sets(Alone(config), slot, prop)

\* C7 as stated: whenever an inner and an outer config both supply a defined
\* value for a property of a slot under the current state and selections, the
\* output carries the value of the outermost config that supplies one.
C7_OutermostAlwaysWins ==
    \A i \in DOMAIN chain, j \in DOMAIN chain, slot \in SlotNames, prop \in PropNames :
        (/\ i < j
         /\ Supplies(chain[i], slot, prop)
         /\ Supplies(chain[j], slot, prop)
         /\ \A k \in DOMAIN chain : k > j => ~Supplies(chain[k], slot, prop))
        => /\ Sets(result, slot, prop)
           /\ result[slot][prop] = Alone(chain[j])[slot][prop]

\* C7 (amended): precedence under composition holds place by place.  The
\* composed config holds at every place the value of the outermost config that
\* defines that place; a value an inner config defines at a place an outer
\* config defines too has no effect on the output; and the compound variants
\* of an outer config are listed after those of the inner ones.  Between
\* different places the layer and selector order of the resolver decides.
C7_PlacewisePrecedence ==
    /\ \A place \in Places, j \in DOMAIN chain :
          (/\ ValueAt(chain[j], place) # UNDEF
           /\ \A k \in DOMAIN chain : k > j => ValueAt(chain[k], place) = UNDEF)
          => ValueAt(definition.config, place) = ValueAt(chain[j], place)
    /\ \A place \in Places, i \in DOMAIN chain, j \in DOMAIN chain :
          (/\ i < j
           /\ ValueAt(chain[i], place) # UNDEF
           /\ ValueAt(chain[j], place) # UNDEF)
          => result = resolveStyles(
                          composeAll(Component,
                                     [chain EXCEPT ![i] = Erase(chain[i], place)]).processed,
                          state, variantProps, inlineStyles)
    /\ processed.compoundVariants.items = chainCompounds(chain)

\* A chain of three createStyled calls whose innermost and outermost configs
\* define the same place with different values, the place being in effect: the
\* output carries the outermost value, and would not with that place left empty.
C7_Witness ==
    /\ Len(chain) = 3
    /\ \E place \in Places :
          /\ ValueAt(chain[1], place) # UNDEF
          /\ ValueAt(chain[3], place) # UNDEF
          /\ ValueAt(chain[1], place) # ValueAt(chain[3], place)
          /\ Sets(result, place.slot, place.prop)
          /\ result[place.slot][place.prop] = ValueAt(chain[3], place)
          /\ result # resolveStyles(processStyledConfig(Erase(definition.config, place),
                                                        ComponentMeta.stateKeys),
                                    state, variantProps, inlineStyles)

(***************************************************************************)
(* Properties of the flattened output, of the prop split and of            *)
(* normalisation                                                           *)
(***************************************************************************)
\* C11: the output is flat: no slot of the output holds a key with the
\* selector prefix, and every value in it is a concrete property value.
C11_OutputIsFlat ==
    \A slot \in DOMAIN result : \A key \in DOMAIN result[slot] :
        /\ ~startsWithPrefix(key)
        /\ result[slot][key] # UNDEF
        /\ ~isPlainObject(result[slot][key])

\* The selector of an active state key wrote a property of the output, and the
\* inline style, which carries a selector too, was applied.
C11_Witness ==
    /\ inlineStyles # UNDEF
    /\ \E slot \in DOMAIN processed.base : \E stateKey \in StateKeyNames :
          /\ IsActive(stateKey)
          /\ processed.base[slot] # UNDEF
          /\ Get(processed.base[slot], SelectorKey(stateKey)) # UNDEF
          /\ \E prop \in DOMAIN processed.base[slot][SelectorKey(stateKey)] :
                /\ Sets(result, slot, prop)
                /\ result[slot][prop] = processed.base[slot][SelectorKey(stateKey)][prop]
                /\ result[slot][prop] # Get(processed.base[slot], prop)

\* The positions in stateKeys of the active state keys whose selector in
\* slotStyle sets prop to a defined value.
ActiveSetters(slotStyle, prop) ==
    {i \in DOMAIN processed.stateKeys :
        /\ IsActive(processed.stateKeys[i])
        /\ Get(slotStyle, SelectorKey(processed.stateKeys[i])) # UNDEF
        /\ Get(slotStyle[SelectorKey(processed.stateKeys[i])], prop) # UNDEF}

Last(positions) == CHOOSE i \in positions : \A j \in positions : j <= i

\* What one slot style gives a property: the value of the selector of the
\* active state key declared last among those that set it, else the plain value.
ValueInSlotStyle(slotStyle, prop) ==
    IF ActiveSetters(slotStyle, prop) # {}
    THEN slotStyle[SelectorKey(processed.stateKeys[Last(ActiveSetters(slotStyle, prop))])][prop]
    ELSE Get(slotStyle, prop)

\* The last of the four layers that sets a property of a slot, 0 when none does.
LastLayerSetting(slot, prop) ==
    IF \E i \in 1..4 : Sets(Layers[i], slot, prop)
    THEN Last({i \in 1..4 : Sets(Layers[i], slot, prop)})
    ELSE 0

\* C12: within one layer the selectors are applied in the order of stateKeys,
\* after the plain properties: every slot style of every layer flattens to the
\* value of the active selector declared last, and that is the value in the
\* output when the layer (base or inline) is the last one to set the property.
C12_DeclaredOrderWins ==
    /\ \A style \in AllLayerStyles : \A slot \in DOMAIN style : \A prop \in PropNames :
          style[slot] # UNDEF =>
              Get(flattenSlotStyle(EmptyObject, style[slot], state, processed.stateKeys), prop)
              = ValueInSlotStyle(style[slot], prop)
    /\ \A slot \in SlotNames, prop \in PropNames :
          /\ LastLayerSetting(slot, prop) = 1 =>
                result[slot][prop] = ValueInSlotStyle(processed.base[slot], prop)
          /\ LastLayerSetting(slot, prop) = 4 =>
                result[slot][prop] = ValueInSlotStyle(inlineStyles[slot], prop)

\* Both state keys are active, the base style of a slot sets one property
\* plainly and under both selectors with different values, no other layer sets
\* it, and the output carries the value of the key declared last.
C12_Witness ==
    \E slot \in DOMAIN processed.base : \E prop \in PropNames :
        /\ processed.base[slot] # UNDEF
        /\ Cardinality(ActiveSetters(processed.base[slot], prop)) = 2
        /\ Get(processed.base[slot], prop) # UNDEF
        /\ processed.base[slot][SelectorKey(processed.stateKeys[1])][prop]
              # processed.base[slot][SelectorKey(processed.stateKeys[2])][prop]
        /\ LastLayerSetting(slot, prop) = 1
        /\ result[slot][prop] = processed.base[slot][SelectorKey(processed.stateKeys[2])][prop]

\* C14: every own key of props is in exactly one of the two maps of the split,
\* with its value; the keys in variantNameSet are in the variant props and the
\* other keys in the forward props.
C14_SplitIsPartition ==
    /\ (DOMAIN variantProps) \cup (DOMAIN forwardProps) = DOMAIN props
    /\ (DOMAIN variantProps) \cap (DOMAIN forwardProps) = {}
    /\ \A key \in DOMAIN props :
          IF key \in processed.variantNameSet
          THEN key \in DOMAIN variantProps /\ variantProps[key] = props[key]
          ELSE key \in DOMAIN forwardProps /\ forwardProps[key] = props[key]

\* The props hold a variant name and another name, one of them with the value
\* undefined, and both maps of the split are used.
C14_Witness ==
    /\ DOMAIN variantProps # {}
    /\ DOMAIN forwardProps # {}
    /\ \E key \in DOMAIN variantProps : variantProps[key] = UNDEF
    /\ \E key \in DOMAIN forwardProps : forwardProps[key] # UNDEF
    /\ processed.variantNameSet \ DOMAIN props # {}

\* The author-facing projection of a processed config.
AuthorProjection(proc) ==
    [base             |-> proc.base,
     variants         |-> proc.variants,
     compoundVariants |-> proc.compoundVariants,
     defaultVariants  |-> proc.defaultVariants]

\* C20: normalisation gives every absent field its empty form and keeps the
\* present ones, variantNameSet is the key set of variants, and normalising the
\* author-facing projection of the processed config gives the processed config.
C20_NormalizeIdempotent ==
    /\ Len(chain) = 1 =>
          LET config == chain[1]
          IN  /\ processed.base =
                    IF Get(config, "base") = UNDEF THEN EmptyObject ELSE config.base
              /\ processed.variants =
                    IF Get(config, "variants") = UNDEF THEN EmptyOrdered ELSE config.variants
              /\ processed.compoundVariants =
                    IF Get(config, "compoundVariants") = UNDEF
                    THEN Arr(<<>>) ELSE config.compoundVariants
              /\ processed.defaultVariants =
                    IF Get(config, "defaultVariants") = UNDEF
                    THEN EmptyObject ELSE config.defaultVariants
              /\ processed.stateKeys = ComponentMeta.stateKeys
    /\ processed.variantNameSet = DOMAIN processed.variants.map
    /\ processStyledConfig(AuthorProjection(processed), processed.stateKeys) = processed

\* A config that has variants and no other field was normalised, its absent
\* fields have their empty form, and the component was rendered.
C20_Witness ==
    /\ DOMAIN props # {}
    /\ Get(chain[1], "base") = UNDEF
    /\ Get(chain[1], "compoundVariants") = UNDEF
    /\ Get(chain[1], "defaultVariants") = UNDEF
    /\ processed.variantNameSet # {}
    /\ processed.base = EmptyObject
    /\ processed.compoundVariants = Arr(<<>>)

(***************************************************************************)
(* Selectors are resolved layer by layer                                   *)
(***************************************************************************)
\* The slot styles each of the layers 2..4 applies: the styles of the selected
\* variant values, the styles of the matching compound entries, the inline style.
AppliedStyles(layer) ==
    CASE layer = 2 ->
            {processed.variants.map[name][effectiveVariants[name].value] :
                name \in {n \in DOMAIN processed.variants.map :
                             /\ processed.variants.map[n] # UNDEF
                             /\ Get(effectiveVariants, n) # UNDEF
                             /\ Get(processed.variants.map[n], effectiveVariants[n].value)
                                   # UNDEF}}
      [] layer = 3 -> {compoundItems[i].styles : i \in Matching}
      [] layer = 4 -> {inlineStyles} \ {UNDEF}

\* The layer applies a slot style that sets the property plainly.
SetsPlainly(layer, slot, prop) ==
    \E style \in AppliedStyles(layer) :
        Get(style, slot) # UNDEF /\ Get(style[slot], prop) # UNDEF

\* The base sets the property through the selector of an active state key.
BaseSelectorSets(slot, prop) ==
    Get(processed.base, slot) # UNDEF /\ ActiveSetters(processed.base[slot], prop) # {}

\* C30: a property the base sets through an active selector and a later layer
\* (variant, compound or inline) sets plainly has in the output the value of the
\* last layer that sets it, not the base selector's; and a slot style that sets
\* a property both plainly and through an active selector flattens to a
\* selector's value.
C30_SelectorsPerLayer ==
    /\ \A slot \in SlotNames, prop \in PropNames : \A layer \in 2..4 :
          (/\ BaseSelectorSets(slot, prop)
           /\ SetsPlainly(layer, slot, prop)
           /\ \A later \in (layer + 1)..4 : ~Sets(Layers[later], slot, prop))
          => /\ Sets(result, slot, prop)
             /\ result[slot][prop] = Layers[layer][slot][prop]
    /\ \A style \in AllLayerStyles : \A slot \in DOMAIN style : \A prop \in PropNames :
          (/\ style[slot] # UNDEF
           /\ Get(style[slot], prop) # UNDEF
           /\ ActiveSetters(style[slot], prop) # {})
          => applyLayerStyles(EmptyObject, style, state, processed.stateKeys)[slot][prop]
                 \in {style[slot][SelectorKey(processed.stateKeys[i])][prop] :
                         i \in ActiveSetters(style[slot], prop)}

\* The base sets fg of root plainly and, to another value, through the selector
\* of the active state key, so that the base layer alone gives the selector's
\* value; the selected variant sets fg plainly, no later layer sets it, and the
\* output has the variant's value, which is not the base selector's.
C30_Witness ==
    /\ BaseSelectorSets("root", "fg")
    /\ Get(processed.base["root"], "fg") # UNDEF
    /\ BaseLayer["root"]["fg"] # processed.base["root"]["fg"]
    /\ SetsPlainly(2, "root", "fg")
    /\ ~Sets(Layers[3], "root", "fg") /\ ~Sets(Layers[4], "root", "fg")
    /\ result["root"]["fg"] = Layers[2]["root"]["fg"]
    /\ result["root"]["fg"] # BaseLayer["root"]["fg"]

(***************************************************************************)
(* A program that merges and resolves configs held in memory               *)
(***************************************************************************)
RECURSIVE StoreConfigs(_, _)
\* The author's configs written one after the other.
StoreConfigs(h, configList) ==
    IF configList = <<>>
    THEN [heap |-> h, refs |-> <<>>]
    ELSE LET first == StoreConfig(h, Head(configList))
             rest == StoreConfigs(first.heap, Tail(configList))
         IN  [heap |-> rest.heap, refs |-> <<first.value>> \o rest.refs]

InitHeap ==
    /\ program = "shared"
    /\ chain = <<>>
    /\ definition = UNDEF
    /\ state = EmptyObject
    /\ variantProps = EmptyObject
    /\ inlineStyles = UNDEF
    /\ result = EmptyObject
    /\ props = EmptyObject
    /\ forwardProps = EmptyObject
    /\ thrown = UNDEF
    /\ LET stored == StoreConfigs(<<>>, SharedConfigs)
       IN  /\ heap = stored.heap
           /\ configRefs = stored.refs
    /\ call = NoCall
    /\ InitLater

\* mergeStyledConfig(configRefs[i], configRefs[j]); the merged config is kept.
\* Once something was merged, every merge takes the config made last on one side.
MergeCall(i, j) ==
    /\ Len(configRefs) < Len(SharedConfigs) + MaxMerged
    /\ Len(configRefs) > Len(SharedConfigs) => Len(configRefs) \in {i, j}
    /\ LET merged == mergeStyledConfigH(heap, configRefs[i], configRefs[j])
       IN  /\ heap' = merged.heap
           /\ configRefs' = Append(configRefs, merged.value)
           /\ call' = [op       |-> "merge",
                       args     |-> <<configRefs[i], configRefs[j]>>,
                       before   |-> heap,
                       after    |-> merged.heap,
                       returned |-> merged.value]
    /\ UNCHANGED <<resolverVars, wrapperVars, factoryVars, laterVars>>

\* A render of the config made last: the caller normalizes it and builds the
\* state, the variant props and the inline styles, then calls resolveStyles.
\* What the render allocated is dropped after it.
ResolveCall(newState, newVariantProps, newInlineStyles) ==
    /\ LET normalized == processStyledConfigH(heap, configRefs[Len(configRefs)],
                                              ComponentMeta.stateKeys)
           stateObject == New(normalized.heap, newState)
           selection == New(stateObject.heap, newVariantProps)
           inline == IF newInlineStyles = UNDEF
                     THEN [heap |-> selection.heap, value |-> UNDEF]
                     ELSE StoreSlotStyles(selection.heap, newInlineStyles)
           resolved == resolveStylesH(inline.heap, normalized.value, stateObject.value,
                                      selection.value, inline.value)
       IN  call' = [op       |-> "resolve",
                    args     |-> <<normalized.value, stateObject.value, selection.value,
                                   inline.value>>,
                    before   |-> inline.heap,
                    after    |-> resolved.heap,
                    returned |-> resolved.value]
    /\ UNCHANGED <<heap, configRefs>>
    /\ UNCHANGED <<resolverVars, wrapperVars, factoryVars, laterVars>>

NextHeap ==
    \/ \E i \in DOMAIN configRefs, j \in DOMAIN configRefs : MergeCall(i, j)
    \/ \E newState \in SharedStates, newVariantProps \in SharedVariantProps,
          newInlineStyles \in SharedInlineStyles :
          ResolveCall(newState, newVariantProps, newInlineStyles)

SpecHeap == InitHeap /\ [][NextHeap]_vars

(***************************************************************************)
(* Inputs are never written                                                *)
(***************************************************************************)
\* The objects of the heap agree with the values: what a call leaves in the
\* heap is what the function gives on the values its arguments held.
HeapAgreesWithValues ==
    /\ \A i \in DOMAIN SharedConfigs : LoadConfig(heap, configRefs[i]) = SharedConfigs[i]
    /\ call.op = "merge" =>
          LoadConfig(call.after, call.returned)
              = mergeStyledConfig(LoadConfig(call.before, call.args[1]),
                                  LoadConfig(call.before, call.args[2]))
    /\ call.op = "resolve" =>
          LoadSlotStyles(call.after, call.returned)
              = resolveStyles(LoadConfig(call.before, call.args[1]),
                              call.before[call.args[2].addr],
                              call.before[call.args[3].addr],
                              IF call.args[4] = UNDEF THEN UNDEF
                              ELSE LoadSlotStyles(call.before, call.args[4]))

\* C13: a call of mergeStyledConfig or resolveStyles leaves every object that
\* existed when it was made as it was (the configs, the state, the variant
\* props and the inline styles with every nested slot, selector, variant and
\* compound object), and returns an object that did not exist before; every
\* slot object of the output of resolveStyles is new as well.
C13_InputsNeverMutated ==
    call.op # "none" =>
        /\ Len(call.after) > Len(call.before)
        /\ \A addr \in DOMAIN call.before : call.after[addr] = call.before[addr]
        /\ call.returned.addr \notin DOMAIN call.before
        /\ call.op = "resolve" =>
              \A slot \in DOMAIN call.after[call.returned.addr] :
                  call.after[call.returned.addr][slot].addr \notin DOMAIN call.before

\* resolveStyles was called on a config made by two merges, one over the other,
\* with an active state, variant props and inline styles with a selector; the
\* output has both slots and the merged config shares a slot object of its
\* base with an author's config.
C13_Witness ==
    /\ call.op = "resolve"
    /\ Len(configRefs) = Len(SharedConfigs) + 2
    /\ LET latest == heap[configRefs[Len(configRefs)].addr]
           normalized == call.before[call.args[1].addr]
           output == LoadSlotStyles(call.after, call.returned)
       IN  /\ normalized.base = latest.base
           /\ call.before[call.args[3].addr] # EmptyObject
           /\ call.args[4] # UNDEF
           /\ DOMAIN output = {"root", "label"}
           /\ output["root"] # EmptyObject /\ output["label"] # EmptyObject
           /\ \E i \in DOMAIN SharedConfigs, slot \in SlotNames :
                 /\ Get(heap[heap[configRefs[i].addr].base.addr], slot) # UNDEF
                 /\ Get(heap[latest.base.addr], slot)
                       = heap[heap[configRefs[i].addr].base.addr][slot]

(***************************************************************************)
(* Composition as merge-then-normalize                                     *)
(***************************************************************************)
RECURSIVE foldMerge(_)
\* mergeStyledConfig folded over a list of author configs from the left:
\* merge(merge(A, B), C) for <<A, B, C>>.
foldMerge(configList) ==
    IF Len(configList) = 1
    THEN configList[1]
    ELSE mergeStyledConfig(foldMerge(SubSeq(configList, 1, Len(configList) - 1)),
                           configList[Len(configList)])

Reverse(seq) == [i \in 1..Len(seq) |-> seq[Len(seq) + 1 - i]]

\* C16: the processed config of styled(...styled(styled(X, A), B)..., Z) is the
\* normalization, with the state keys of X, of the left-to-right fold of
\* mergeStyledConfig over A, B, ..., Z (mergeStyledConfig(A, B) for a chain of
\* two, B the override), and the definition's output is the output of that
\* normalized fold.
C16_MergeThenNormalize ==
    LET folded == processStyledConfig(foldMerge(chain), ComponentMeta.stateKeys)
    IN  /\ processed = folded
        /\ Len(chain) = 2 =>
              processed = processStyledConfig(mergeStyledConfig(chain[1], chain[2]),
                                              ComponentMeta.stateKeys)
        /\ result = resolveStyles(folded, state, variantProps, inlineStyles)

\* A chain of three different configs whose order matters: folding the chain
\* from the other end gives another processed config and another output.
C16_Witness ==
    /\ Len(chain) = 3
    /\ chain[1] # chain[2] /\ chain[2] # chain[3] /\ chain[1] # chain[3]
    /\ LET folded == processStyledConfig(foldMerge(chain), ComponentMeta.stateKeys)
           other == processStyledConfig(foldMerge(Reverse(chain)), ComponentMeta.stateKeys)
       IN  /\ processed = folded
           /\ processed # other
           /\ result # resolveStyles(other, state, variantProps, inlineStyles)

(***************************************************************************)
(* Merging compoundVariants                                                *)
(***************************************************************************)
\* The condition keys of a compound entry with the values they require.
Conditions(entry) == Without(entry, "styles")

lastBaseItems == lastBase.compoundVariants.items

lastOverrideItems == OrElse(lastOverride, "compoundVariants", Arr(<<>>)).items

\* The pairs <<i, j>> of positions of the merged list that hold a base entry
\* and an override entry with the same conditions.
SameConditionPairs ==
    {pair \in (1..Len(lastBaseItems)) \X ((Len(lastBaseItems) + 1)..Len(compoundItems)) :
        Conditions(compoundItems[pair[1]]) = Conditions(compoundItems[pair[2]])}

\* Entry i of the merged list has the last word on a property among the matching
\* entries.
LastMatchingSetter(i, slot, prop) ==
    /\ i \in Matching
    /\ Sets(EntryLayer(i), slot, prop)
    /\ \A k \in Matching : k > i => ~Sets(EntryLayer(k), slot, prop)
    /\ ~Sets(InlineLayer, slot, prop)

\* C17: the merged compound list is the base's entries followed by the
\* override's, every entry kept; a base entry and an override entry with the
\* same conditions match together, and then both are applied: a property both
\* set has the override entry's value, a property only the base entry sets has
\* the base entry's (unless a matching entry listed later sets it).
C17_CompoundsConcatenated ==
    Len(chain) >= 2 =>
        /\ definition.config.compoundVariants.items = lastBaseItems \o lastOverrideItems
        /\ compoundItems = lastBaseItems \o lastOverrideItems
        /\ \A pair \in SameConditionPairs :
              /\ pair[1] \in Matching <=> pair[2] \in Matching
              /\ \A slot \in SlotNames, prop \in PropNames :
                    /\ LastMatchingSetter(pair[2], slot, prop) =>
                          /\ Sets(result, slot, prop)
                          /\ result[slot][prop] = EntryLayer(pair[2])[slot][prop]
                    /\ LastMatchingSetter(pair[1], slot, prop) =>
                          /\ Sets(result, slot, prop)
                          /\ result[slot][prop] = EntryLayer(pair[1])[slot][prop]

\* A base entry and an override entry with the same conditions both match; both
\* set fg of root, to different values, and the output has the override's; the
\* base entry alone sets bg of root, and the output has its value, which no
\* other layer gives.
C17_Witness ==
    /\ Len(chain) >= 2
    /\ \E pair \in SameConditionPairs :
          LET baseEntry == EntryLayer(pair[1])
              overrideEntry == EntryLayer(pair[2])
          IN  /\ pair[1] \in Matching /\ pair[2] \in Matching
              /\ Sets(baseEntry, "root", "fg") /\ Sets(overrideEntry, "root", "fg")
              /\ baseEntry["root"]["fg"] # overrideEntry["root"]["fg"]
              /\ LastMatchingSetter(pair[2], "root", "fg")
              /\ result["root"]["fg"] = overrideEntry["root"]["fg"]
              /\ LastMatchingSetter(pair[1], "root", "bg")
              /\ ~Sets(BaseLayer, "root", "bg") /\ ~Sets(VariantLayer, "root", "bg")
              /\ result["root"]["bg"] = baseEntry["root"]["bg"]

(***************************************************************************)
(* Merging slot styles                                                     *)
(***************************************************************************)
Defined(object, key) == Get(object, key) # UNDEF

\* merged is base with the defined values of override laid over it, key by key.
OverrideWins(base, override, merged, keys) ==
    \A key \in keys :
        Get(merged, key) = IF Defined(override, key) THEN override[key] ELSE Get(base, key)

SelectorKeys == {SelectorKey(stateKey) : stateKey \in StateKeyNames}

\* The rule for one slot both sides define: plain properties with the override
\* winning; a selector of one side only as that side has it; a selector of both
\* sides property by property with the override winning.
SlotStyleMerged(base, override, merged) ==
    /\ DOMAIN merged \subseteq PropNames \cup SelectorKeys
    /\ OverrideWins(base, override, merged, PropNames)
    /\ \A key \in SelectorKeys :
          IF Defined(base, key) /\ Defined(override, key)
          THEN /\ DOMAIN merged[key] \subseteq PropNames
               /\ OverrideWins(base[key], override[key], merged[key], PropNames)
          ELSE Get(merged, key) = IF Defined(override, key) THEN override[key]
                                  ELSE Get(base, key)

\* The rule of mergeSlotStyles: a slot of one side only as that side has it, a
\* slot of both sides by SlotStyleMerged.
SlotStylesMerged(base, override, merged) ==
    /\ DOMAIN merged \subseteq SlotNames
    /\ \A slot \in SlotNames :
          IF Defined(base, slot) /\ Defined(override, slot)
          THEN SlotStyleMerged(base[slot], override[slot], merged[slot])
          ELSE Get(merged, slot) = IF Defined(override, slot) THEN override[slot]
                                   ELSE Get(base, slot)

lastOverrideBase == OrElse(lastOverride, "base", EmptyObject)

\* C18: the merged base slot styles follow the per-slot rule: a slot only one
\* side defines is that side's; in a slot both define, a plain property has the
\* override's value when the override sets it and the base's otherwise, and a
\* selector both define keeps the base selector's properties the override
\* selector does not set and has the override's value for those it sets.
C18_SlotStylesMergedPerSlot ==
    Len(chain) >= 2 =>
        SlotStylesMerged(lastBase.base, lastOverrideBase, definition.config.base)

\* Both sides define the slot label and its selector _active: fg is set by both
\* selectors, to different values, and the merged selector has the override's;
\* bg is set by the base selector only and is kept; the plain fg of both sides
\* differs and the merged one is the override's; the slot root, which only the
\* base defines, is the base's.
C18_Witness ==
    /\ Len(chain) >= 2
    /\ Defined(lastBase.base, "label") /\ Defined(lastOverrideBase, "label")
    /\ LET base == lastBase.base["label"]
           override == lastOverrideBase["label"]
           merged == definition.config.base["label"]
       IN  /\ Defined(base, "_active") /\ Defined(override, "_active")
           /\ Defined(base["_active"], "fg") /\ Defined(override["_active"], "fg")
           /\ base["_active"]["fg"] # override["_active"]["fg"]
           /\ merged["_active"]["fg"] = override["_active"]["fg"]
           /\ Defined(base["_active"], "bg") /\ ~Defined(override["_active"], "bg")
           /\ merged["_active"]["bg"] = base["_active"]["bg"]
           /\ Defined(base, "fg") /\ Defined(override, "fg") /\ base["fg"] # override["fg"]
           /\ merged["fg"] = override["fg"]
    /\ Defined(lastBase.base, "root") /\ ~Defined(lastOverrideBase, "root")
    /\ definition.config.base["root"] = lastBase.base["root"]

(***************************************************************************)
(* Merging variants                                                        *)
(***************************************************************************)
\* The rule for the values of a variant name both sides define: a value of one
\* side only as that side has it, a value of both sides by the rule of
\* mergeSlotStyles.
VariantValuesMerged(base, override, merged) ==
    /\ DOMAIN merged \subseteq (DOMAIN base) \cup (DOMAIN override)
    /\ \A value \in (DOMAIN base) \cup (DOMAIN override) :
          IF Defined(base, value) /\ Defined(override, value)
          THEN SlotStylesMerged(base[value], override[value], merged[value])
          ELSE Get(merged, value) = IF Defined(override, value) THEN override[value]
                                    ELSE Get(base, value)

\* The rule of mergeVariants for the variant names.
VariantsMerged(base, override, merged) ==
    /\ DOMAIN merged.map = (DOMAIN base.map) \cup (DOMAIN override.map)
    /\ \A name \in DOMAIN merged.map :
          IF Defined(base.map, name) /\ Defined(override.map, name)
          THEN VariantValuesMerged(base.map[name], override.map[name], merged.map[name])
          ELSE merged.map[name] = IF Defined(override.map, name) THEN override.map[name]
                                  ELSE Get(base.map, name)

\* C19: in the merged config a variant name only one side defines is that
\* side's; under a name both define, a value only one side defines is that
\* side's and a value both define is the per-slot merge of the two definitions;
\* every name and value of either side is in the merged variants.
C19_VariantsMergedByNameThenValue ==
    Len(chain) >= 2 =>
        IF Get(lastOverride, "variants") = UNDEF
        THEN definition.config.variants = lastBase.variants
        ELSE VariantsMerged(lastBase.variants, lastOverride.variants,
                            definition.config.variants)

\* The override brings a variant name the base does not have; under a name of
\* both sides, one value is defined by both and its merged definition is neither
\* side's, and another value is defined by the base only and is kept.
C19_Witness ==
    /\ Len(chain) >= 2
    /\ Get(lastOverride, "variants") # UNDEF
    /\ LET base == lastBase.variants.map
           override == lastOverride.variants.map
           merged == definition.config.variants.map
       IN  /\ \E name \in DOMAIN override :
                 /\ ~Defined(base, name) /\ Defined(override, name)
                 /\ merged[name] = override[name]
           /\ \E name \in (DOMAIN base) \cap (DOMAIN override) :
                 /\ Defined(base, name) /\ Defined(override, name)
                 /\ \E value \in DOMAIN base[name] :
                       /\ Defined(base[name], value) /\ Defined(override[name], value)
                       /\ merged[name][value] # base[name][value]
                       /\ merged[name][value] # override[name][value]
                 /\ \E value \in DOMAIN base[name] :
                       /\ Defined(base[name], value) /\ ~Defined(override[name], value)
                       /\ merged[name][value] = base[name][value]

(***************************************************************************)
(* Properties of the factory                                               *)
(***************************************************************************)
\* A step of the factory whose target carries no metadata.
StyledBare == \E config \in ConfigsOf(program) : Styled(BareComponent, config)

\* A step of the factory whose target carries metadata.
StyledWithMeta ==
    \E target \in {Component, definition}, config \in ConfigsOf(program) : Styled(target, config)

\* A createStyled call on a target with no metadata throws and returns no
\* definition, and a call on a target with metadata returns a definition.
ThrowsExactlyWithoutMetadata ==
    [][/\ StyledBare => (thrown' # UNDEF /\ definition' = definition)
       /\ StyledWithMeta => (thrown' = UNDEF /\ definition'.meta = ComponentMeta)]_vars

\* C15: createStyled on a target with no component metadata fails with a
\* MissingMetadataError and returns no definition; with metadata it never fails.
C15_MissingMetadataError ==
    [][/\ StyledBare =>
             (/\ thrown' # UNDEF
              /\ thrown'.name = "MissingMetadataError"
              /\ definition' = definition)
       /\ StyledWithMeta => thrown' = UNDEF]_vars

(***************************************************************************)
(* A program with several component instances of several definitions.     *)
(* The definitions are normalized once; every render of an instance calls  *)
(* resolveStyles with the instance's definition, state, variant props and  *)
(* inline styles, and the instance keeps what the call returned.           *)
(*   renders   the calls made so far, in the order they were made: the     *)
(*             instance, the arguments and the returned object             *)
(***************************************************************************)
\* The definition each instance is of: two instances of one definition and one
\* of another.
InstanceDefinition == <<1, 1, 2>>

\* The variant props each instance was created with.
InstanceVariantProps ==
    <<("intent" :> Str("primary")) @@ ("size" :> Str("lg")),
      ("intent" :> Str("primary")) @@ ("size" :> Str("lg")),
      EmptyObject>>

\* The resolveStyles calls a run makes.
MaxRenders == 3

RECURSIVE ProcessConfigs(_, _)
\* processStyledConfig on each stored config, one after the other.
ProcessConfigs(h, refs) ==
    IF refs = <<>>
    THEN [heap |-> h, refs |-> <<>>]
    ELSE LET first == processStyledConfigH(h, Head(refs), ComponentMeta.stateKeys)
             rest == ProcessConfigs(first.heap, Tail(refs))
         IN  [heap |-> rest.heap, refs |-> <<first.value>> \o rest.refs]

\* The memory once the definitions are made: the author's configs and their
\* processed configs.
Definitions ==
    LET stored == StoreConfigs(<<>>, SharedConfigs)
    IN  ProcessConfigs(stored.heap, stored.refs)

InitInstances ==
    /\ program = "shared"
    /\ chain = <<>>
    /\ definition = UNDEF
    /\ state = EmptyObject
    /\ variantProps = EmptyObject
    /\ inlineStyles = UNDEF
    /\ result = EmptyObject
    /\ props = EmptyObject
    /\ forwardProps = EmptyObject
    /\ thrown = UNDEF
    /\ heap = Definitions.heap
    /\ configRefs = Definitions.refs
    /\ call = NoCall
    /\ renders = <<>>
    /\ InitWidgets

\* A render of an instance: the caller builds the state, the variant props and
\* the inline styles and calls resolveStyles with the instance's processed
\* config. Everything the call allocated stays in memory.
RenderInstance(instance, newState, newInlineStyles) ==
    /\ Len(renders) < MaxRenders
    /\ LET stateObject == New(heap, newState)
           selection == New(stateObject.heap, InstanceVariantProps[instance])
           inline == IF newInlineStyles = UNDEF
                     THEN [heap |-> selection.heap, value |-> UNDEF]
                     ELSE StoreSlotStyles(selection.heap, newInlineStyles)
           resolved == resolveStylesH(inline.heap, configRefs[InstanceDefinition[instance]],
                                      stateObject.value, selection.value, inline.value)
       IN  /\ heap' = resolved.heap
           /\ renders' = Append(renders,
                                [instance |-> instance,
                                 args     |-> <<configRefs[InstanceDefinition[instance]],
                                                stateObject.value, selection.value,
                                                inline.value>>,
                                 returned |-> resolved.value])
    /\ UNCHANGED <<configRefs, call>>
    /\ UNCHANGED <<resolverVars, wrapperVars, factoryVars, widgetVars>>

NextInstances ==
    \E instance \in DOMAIN InstanceDefinition, newState \in SharedStates,
       newInlineStyles \in SharedInlineStyles :
       RenderInstance(instance, newState, newInlineStyles)

SpecInstances == InitInstances /\ [][NextInstances]_vars

(***************************************************************************)
(* Calls of resolveStyles do not interfere                                 *)
(***************************************************************************)
\* The values the arguments of a call hold.
ArgumentValues(render) ==
    <<LoadConfig(heap, render.args[1]),
      heap[render.args[2].addr],
      heap[render.args[3].addr],
      IF render.args[4] = UNDEF THEN UNDEF ELSE LoadSlotStyles(heap, render.args[4])>>

\* The value of what a call returned, as it is in memory now.
Output(render) == LoadSlotStyles(heap, render.returned)

\* The slot objects of what a call returned.
SlotObjects(render) ==
    {heap[render.returned.addr][slot].addr : slot \in DOMAIN heap[render.returned.addr]}

\* The objects of the configs and of the processed configs.
ConfigObjects == 1..Len(Definitions.heap)

\* C21: in every interleaving of resolveStyles calls for instances of several
\* definitions, what each call returned is, after all the later calls too, the
\* value resolveStyles gives on the values of the call's own arguments, so two
\* calls with equal arguments have equal outputs; the returned objects of two
\* calls are different objects, no slot object is in the output of two calls,
\* and no slot object of an output is an object of a config.
C21_CallsAreIndependent ==
    \A i \in DOMAIN renders :
        /\ Output(renders[i])
              = resolveStyles(ArgumentValues(renders[i])[1], ArgumentValues(renders[i])[2],
                              ArgumentValues(renders[i])[3], ArgumentValues(renders[i])[4])
        /\ SlotObjects(renders[i]) \cap ConfigObjects = {}
        /\ renders[i].returned.addr \notin ConfigObjects
        /\ \A j \in DOMAIN renders \ {i} :
              /\ ArgumentValues(renders[i]) = ArgumentValues(renders[j])
                    => Output(renders[i]) = Output(renders[j])
              /\ renders[i].returned # renders[j].returned
              /\ SlotObjects(renders[i]) \cap SlotObjects(renders[j]) = {}

\* Three calls were made: two instances of one definition were rendered with
\* equal arguments, with a render of an instance of another definition between
\* them; the two outputs are equal, have both slots, and are made of different
\* objects.
C21_Witness ==
    /\ Len(renders) = 3
    /\ renders[1].instance # renders[3].instance
    /\ renders[1].args[1] = renders[3].args[1]
    /\ renders[2].args[1] # renders[1].args[1]
    /\ ArgumentValues(renders[1]) = ArgumentValues(renders[3])
    /\ renders[1].args[4] # UNDEF
    /\ Output(renders[1]) = Output(renders[3])
    /\ Output(renders[2]) # Output(renders[1])
    /\ DOMAIN Output(renders[1]) = {"root", "label"}
    /\ Output(renders[1])["root"] # EmptyObject
    /\ SlotObjects(renders[1]) \cap SlotObjects(renders[3]) = {}

(***************************************************************************)
(* The dialog manager, the dialog container and the renderer's focus       *)
(*   manager     the fields of the DialogManager: dialogs, idCounter,       *)
(*               savedFocus, focusRestoreTimeout (whether a handle is      *)
(*               held), destroyed                                          *)
(*   container   the fields of the DialogContainerRenderable subscribed to  *)
(*               the manager: dialogRenderables (the entries of the Map in  *)
(*               insertion order), closeOnEscape, created (the dialog      *)
(*               renderables made so far)                                  *)
(*   ctx         the renderer: currentFocusedRenderable, focused (the      *)
(*               renderable that has the focus), timers (the focus         *)
(*               restore timeouts that are pending), blurClears (whether   *)
(*               this renderer forgets its current renderable at blur)     *)
(*   dialogCall  the last call made on the manager or the container: the   *)
(*               operation, its argument, the dialogs before it, what it   *)
(*               returned or threw and the dialogs whose onClose it called *)
(***************************************************************************)
Null == [jsType |-> "null"]

Num(n) == [jsType |-> "number", value |-> n]

\* The renderable of the application that has the focus when the program starts.
AppRenderable == [jsType |-> "renderable", kind |-> "app"]

\* The content of the dialog renderable created as the serial-th one.
ContentOf(serial) == [jsType |-> "renderable", kind |-> "content", serial |-> serial]

\* The show calls a run makes.
MaxShows == 3

\* The focus restore timeouts pending at one time.
MaxTimers == 2

\* The ids callers pass to show; undefined for a generated id.
ShowIds == {UNDEF, Num(1), Str("a")}

\* The onClose callbacks callers pass to show; undefined for none.
CloseCallbacks == {UNDEF, Str("onClose")}

\* The options object of a show call whose content factory returns a
\* renderable.
ShowOptions(id, onClose) ==
    ("content" :> Str("returns"))
    @@ (IF id = UNDEF THEN EmptyObject ELSE "id" :> id)
    @@ (IF onClose = UNDEF THEN EmptyObject ELSE "onClose" :> onClose)

\* The options object of a show call whose content factory throws.
ThrowingOptions(id) ==
    ("content" :> Str("throws")) @@ (IF id = UNDEF THEN EmptyObject ELSE "id" :> id)

\* dialogs.findIndex((d) => d.id === id), counted from 1; 0 when there is none.
findIndex(dialogs, id) ==
    IF \E i \in DOMAIN dialogs : dialogs[i]["id"] = id
    THEN CHOOSE i \in DOMAIN dialogs :
             /\ dialogs[i]["id"] = id
             /\ \A j \in 1..(i - 1) : dialogs[j]["id"] # id
    ELSE 0

\* The sequence without its i-th element.
RemoveAt(seq, i) == SubSeq(seq, 1, i - 1) \o SubSeq(seq, i + 1, Len(seq))

\* The objects a call works on, with what the call has returned and thrown so
\* far and the dialogs whose onClose it has called, in the order of the calls.
World ==
    [manager |-> manager, container |-> container, ctx |-> ctx,
     returned |-> UNDEF, thrown |-> UNDEF, closed |-> <<>>, published |-> 0]

\* --- the renderer and its renderables ---
\* Renderable.isDestroyed: a dialog's content is destroyed with its dialog
\* renderable.
isDestroyed(w, renderable) ==
    /\ renderable.kind = "content"
    /\ \A i \in DOMAIN w.container.dialogRenderables :
          w.container.dialogRenderables[i].serial # renderable.serial

\* Renderable.blur(): nothing when the renderable does not have the focus.
blur(w, renderable) ==
    IF w.ctx.focused # renderable
    THEN w
    ELSE [w EXCEPT !.ctx.focused = Null,
                   !.ctx.currentFocusedRenderable = IF w.ctx.blurClears THEN Null ELSE @]

\* Renderable.focus(): the renderer blurs the renderable it holds and holds
\* this one.
focus(w, renderable) ==
    IF isDestroyed(w, renderable) \/ w.ctx.focused = renderable
    THEN w
    ELSE [w EXCEPT !.ctx.focused = renderable,
                   !.ctx.currentFocusedRenderable = renderable]

\* --- DialogContainerRenderable ---
\* The entries of _dialogRenderables with the id, first to last.
RenderableIndex(w, id) ==
    {i \in DOMAIN w.container.dialogRenderables :
        w.container.dialogRenderables[i].dialog["id"] = id}

\* removeDialog: the dialog renderable is closed, which calls
\* handleDialogRemoved; the entry is deleted and the renderable destroyed, and
\* its content loses the focus if it had it.
removeDialog(w, id) ==
    IF RenderableIndex(w, id) = {}
    THEN w
    ELSE LET i == CHOOSE j \in RenderableIndex(w, id) : TRUE
             content == ContentOf(w.container.dialogRenderables[i].serial)
         IN  blur([w EXCEPT !.container.dialogRenderables = RemoveAt(@, i)], content)

\* An existing renderable of the id is removed; Map.set then puts the new
\* entry after every entry the map has.
\* new DialogRenderable calls the content factory (createContent) and throws
\* what it throws, before the entry is set; the manager's publish catches the
\* error of its subscriber. created counts the constructor calls.
addOrUpdateDialog(w, dialog) ==
    LET removed == removeDialog(w, dialog["id"])
        serial == removed.container.created + 1
    IN  IF dialog["content"] = Str("throws")
        THEN [removed EXCEPT !.container.created = serial]
        ELSE [removed EXCEPT !.container.dialogRenderables =
                                 Append(@, [dialog |-> dialog, serial |-> serial]),
                             !.container.created = serial]

\* --- DialogManager ---
saveFocus(w) ==
    LET current == w.ctx.currentFocusedRenderable
        saved == [w EXCEPT !.manager.savedFocus = current]
    IN  IF current = Null THEN saved ELSE blur(saved, current)

\* The timeout is set; its callback is focusRestoreTimer.
restoreFocus(w) ==
    IF w.manager.savedFocus # Null /\ ~isDestroyed(w, w.manager.savedFocus)
    THEN [w EXCEPT !.ctx.timers = @ + 1, !.manager.focusRestoreTimeout = TRUE]
    ELSE [w EXCEPT !.manager.savedFocus = Null]

\* The callback of the timeout set by restoreFocus.
focusRestoreTimer(w) ==
    LET focused == IF /\ ~w.manager.destroyed
                      /\ w.manager.savedFocus # Null
                      /\ ~isDestroyed(w, w.manager.savedFocus)
                   THEN focus(w, w.manager.savedFocus)
                   ELSE w
    IN  [focused EXCEPT !.manager.savedFocus = Null,
                        !.manager.focusRestoreTimeout = FALSE]

\* "close" in data && data.close === true
isDialogToClose(data) == "close" \in DOMAIN data /\ data["close"] = TRUE

\* The container is the subscriber.
\* _version is counted from the start of the call; the subscriber is the
\* container.
publish(w, data) ==
    LET counted == [w EXCEPT !.published = @ + 1]
    IN  IF isDialogToClose(data)
        THEN removeDialog(counted, data["id"])
        ELSE addOrUpdateDialog(counted, data)

addDialog(w, data) ==
    publish([w EXCEPT !.manager.dialogs = Append(@, data)], data)

\* options.content is a function in every call of the model.
show(w, options) ==
    IF w.manager.destroyed
    THEN [w EXCEPT !.thrown = Error("Cannot show dialog: DialogManager has been destroyed.")]
    ELSE LET id == IF Get(options, "id") # UNDEF
                   THEN options["id"]
                   ELSE Num(w.manager.idCounter)
             counted == IF Get(options, "id") # UNDEF
                        THEN w
                        ELSE [w EXCEPT !.manager.idCounter = @ + 1]
             existingIndex == findIndex(w.manager.dialogs, id)
         IN  IF existingIndex # 0
             THEN LET updated == Put(Spread(w.manager.dialogs[existingIndex], options),
                                     "id", id)
                  IN  [publish([counted EXCEPT !.manager.dialogs[existingIndex] = updated],
                               updated)
                          EXCEPT !.returned = id]
             ELSE LET saved == IF Len(w.manager.dialogs) = 0
                               THEN saveFocus(counted)
                               ELSE counted
                  IN  [addDialog(saved, Put(options, "id", id)) EXCEPT !.returned = id]

\* What close does to the dialog at dialogIndex.
closeAt(w, targetId, dialogIndex) ==
    LET dialog == w.manager.dialogs[dialogIndex]
        published == publish([w EXCEPT !.manager.dialogs = RemoveAt(@, dialogIndex)],
                             ("id" :> targetId) @@ ("close" :> TRUE))
        called == IF Get(dialog, "onClose") # UNDEF
                  THEN [published EXCEPT !.closed = Append(@, dialog)]
                  ELSE published
        restored == IF Len(called.manager.dialogs) = 0 THEN restoreFocus(called) ELSE called
    IN  [restored EXCEPT !.returned = targetId]

\* close that takes the oldest dialog when it is given no id.
closeOldest(w, id) ==
    LET targetId == IF id # UNDEF
                    THEN id
                    ELSE IF w.manager.dialogs = <<>>
                    THEN UNDEF
                    ELSE w.manager.dialogs[1]["id"]
        dialogIndex == IF targetId = UNDEF THEN 0 ELSE findIndex(w.manager.dialogs, targetId)
    IN  IF dialogIndex = 0
        THEN [w EXCEPT !.returned = UNDEF]
        ELSE closeAt(w, targetId, dialogIndex)

\* close that publishes the id it is given also when no open dialog has it.
closePublishesMiss(w, id) ==
    LET targetId == IF id # UNDEF
                    THEN id
                    ELSE IF w.manager.dialogs = <<>>
                    THEN UNDEF
                    ELSE w.manager.dialogs[Len(w.manager.dialogs)]["id"]
        dialogIndex == IF targetId = UNDEF THEN 0 ELSE findIndex(w.manager.dialogs, targetId)
    IN  IF targetId = UNDEF
        THEN [w EXCEPT !.returned = UNDEF]
        ELSE IF dialogIndex = 0
        THEN [publish(w, ("id" :> targetId) @@ ("close" :> TRUE)) EXCEPT !.returned = UNDEF]
        ELSE closeAt(w, targetId, dialogIndex)

close(w, id) ==
    LET targetId == IF id # UNDEF
                    THEN id
                    ELSE IF w.manager.dialogs = <<>>
                    THEN UNDEF
                    ELSE w.manager.dialogs[Len(w.manager.dialogs)]["id"]
        dialogIndex == IF targetId = UNDEF THEN 0 ELSE findIndex(w.manager.dialogs, targetId)
    IN  IF dialogIndex = 0
        THEN [w EXCEPT !.returned = UNDEF]
        ELSE closeAt(w, targetId, dialogIndex)

RECURSIVE closeEach(_, _)
\* for (const d of dialogsToClose) this.close(d.id)
closeEach(w, dialogsToClose) ==
    IF dialogsToClose = <<>>
    THEN w
    ELSE closeEach(close(w, Head(dialogsToClose)["id"]), Tail(dialogsToClose))

\* closeAll that closes the dialogs oldest first.
closeAllOldestFirst(w) ==
    [closeEach(w, w.manager.dialogs) EXCEPT !.returned = UNDEF]

closeAll(w) ==
    [closeEach(w, Reverse(w.manager.dialogs)) EXCEPT !.returned = UNDEF]

replace(w, options) == show(closeAll(w), options)

destroy(w) ==
    IF w.manager.destroyed
    THEN w
    ELSE [w EXCEPT !.manager.destroyed = TRUE,
                   !.ctx.timers = IF w.manager.focusRestoreTimeout THEN @ - 1 ELSE @,
                   !.manager.focusRestoreTimeout = FALSE,
                   !.manager.savedFocus = Null,
                   !.manager.dialogs = <<>>]

\* --- DialogContainerRenderable.handleKeyboard ---
getTopDialogRenderable(w) ==
    IF Len(w.container.dialogRenderables) = 0
    THEN UNDEF
    ELSE w.container.dialogRenderables[Len(w.container.dialogRenderables)]

handleKeyboard(w, key) ==
    IF w.container.closeOnEscape = FALSE
    THEN [w EXCEPT !.returned = FALSE]
    ELSE IF key = "escape" /\ Len(w.container.dialogRenderables) > 0
    THEN [close(w, getTopDialogRenderable(w).dialog["id"]) EXCEPT !.returned = TRUE]
    ELSE [w EXCEPT !.returned = FALSE]

\* --- the program ---
InitDialog ==
    /\ InitEngine
    /\ NoCheckbox
    /\ NoToast
    /\ NoToaster
    /\ manager = [dialogs |-> <<>>, idCounter |-> 1, savedFocus |-> Null,
                  focusRestoreTimeout |-> FALSE, destroyed |-> FALSE]
    /\ container = [dialogRenderables |-> <<>>, closeOnEscape |-> TRUE, created |-> 0]
    /\ \E blurClears \in BOOLEAN :
          ctx = [currentFocusedRenderable |-> AppRenderable, focused |-> AppRenderable,
                 timers |-> 0, blurClears |-> blurClears]
    /\ dialogCall = NoCall

\* The state after a call and the record of the call.
Called(op, arg, w) ==
    /\ w.ctx.timers <= MaxTimers
    /\ manager' = w.manager
    /\ container' = w.container
    /\ ctx' = w.ctx
    /\ dialogCall' = [op |-> op, arg |-> arg, before |-> manager.dialogs,
                      returned |-> w.returned, thrown |-> w.thrown, closed |-> w.closed,
                      published |-> w.published]
    /\ UNCHANGED <<engineVars, checkboxVars, toastVars, toasterVars>>

Show(id, onClose) ==
    /\ container.created < MaxShows
    /\ Called("show", ShowOptions(id, onClose), show(World, ShowOptions(id, onClose)))

\* show with a content factory that throws.
ShowThrowing(id) ==
    /\ container.created < MaxShows
    /\ Called("show", ThrowingOptions(id), show(World, ThrowingOptions(id)))

Close(id) == Called("close", id, close(World, id))

CloseAll == Called("closeAll", UNDEF, closeAll(World))

Replace(id, onClose) ==
    /\ container.created < MaxShows
    /\ Called("replace", ShowOptions(id, onClose), replace(World, ShowOptions(id, onClose)))

Destroy == 
    /\ ~manager.destroyed
    /\ Called("destroy", UNDEF, destroy(World))

\* A keypress reaches the container.
Keypress(key) == Called("keypress", key, handleKeyboard(World, key))

\* The setter of the container's closeOnEscape.
SetCloseOnEscape(value) ==
    /\ container.closeOnEscape # value
    /\ Called("closeOnEscape", value, [World EXCEPT !.container.closeOnEscape = value])

\* The content of the top dialog renderable takes the focus.
FocusContent ==
    /\ Len(container.dialogRenderables) > 0
    /\ LET content == ContentOf(getTopDialogRenderable(World).serial)
       IN  /\ ctx.focused # content
           /\ ctx' = focus(World, content).ctx
    /\ UNCHANGED <<manager, container, dialogCall>>
    /\ UNCHANGED <<engineVars, checkboxVars, toastVars, toasterVars>>

\* A pending focus restore timeout fires.
TimerFires ==
    /\ ctx.timers > 0
    /\ LET fired == focusRestoreTimer([World EXCEPT !.ctx.timers = @ - 1])
       IN  /\ manager' = fired.manager
           /\ ctx' = fired.ctx
    /\ UNCHANGED <<container, dialogCall>>
    /\ UNCHANGED <<engineVars, checkboxVars, toastVars, toasterVars>>

NextDialog ==
    \/ \E id \in ShowIds, onClose \in CloseCallbacks : Show(id, onClose)
    \/ \E id \in ShowIds : Close(id)
    \/ CloseAll
    \/ \E id \in ShowIds, onClose \in CloseCallbacks : Replace(id, onClose)
    \/ Destroy
    \/ \E key \in {"escape", "return"} : Keypress(key)
    \/ \E value \in BOOLEAN : SetCloseOnEscape(value)
    \/ FocusContent
    \/ TimerFires

SpecDialog == InitDialog /\ [][NextDialog]_vars

\* A program whose content factories may throw, and that shows, closes and
\* replaces dialogs.
NextDialogContent ==
    \/ \E id \in ShowIds, onClose \in CloseCallbacks : Show(id, onClose)
    \/ \E id \in ShowIds : ShowThrowing(id)
    \/ \E id \in ShowIds : Close(id)
    \/ CloseAll
    \/ \E id \in ShowIds, onClose \in CloseCallbacks : Replace(id, onClose)
    \/ TimerFires

SpecDialogContent == InitDialog /\ [][NextDialogContent]_vars

(***************************************************************************)
(* The dialog stack                                                        *)
(***************************************************************************)
\* The ids of the dialogs, oldest first.
DialogIds(dialogs) == [i \in DOMAIN dialogs |-> dialogs[i]["id"]]

\* The dialogs that have an onClose callback, in their order.
WithOnClose(dialogs) == SelectSeq(dialogs, LAMBDA dialog : "onClose" \in DOMAIN dialog)

\* The manager's top-most dialog before the last call.
TopBefore == dialogCall.before[Len(dialogCall.before)]

\* C22: whenever no dialog is open, no focus restore timeout is pending and the
\* manager is not destroyed, the renderable that had the focus before the first
\* dialog opened has the focus.
C22_FocusRestored ==
    (Len(manager.dialogs) = 0 /\ ctx.timers = 0 /\ ~manager.destroyed)
        => ctx.focused = AppRenderable

\* C23: an escape keypress that reaches the container while closeOnEscape is
\* not false and a dialog is open closes the manager's top-most dialog and no
\* other.
C23_EscapeClosesTop ==
    (/\ dialogCall.op = "keypress"
     /\ dialogCall.arg = "escape"
     /\ container.closeOnEscape # FALSE
     /\ Len(dialogCall.before) > 0)
        => /\ dialogCall.returned = TRUE
           /\ manager.dialogs = SubSeq(dialogCall.before, 1, Len(dialogCall.before) - 1)

\* C24: close() without an id, with a dialog open, removes the last dialog of
\* the list, returns its id, calls its onClose once and no other callback, and
\* leaves the other dialogs in their order; close(id) removes the dialog with
\* that id and no other, and nothing when no dialog has the id.
C24_CloseRemovesOne ==
    (dialogCall.op = "close" /\ Len(dialogCall.before) > 0) =>
        LET before == dialogCall.before
            index == IF dialogCall.arg = UNDEF
                     THEN Len(before)
                     ELSE findIndex(before, dialogCall.arg)
        IN  IF index = 0
            THEN /\ manager.dialogs = before
                 /\ dialogCall.returned = UNDEF
                 /\ dialogCall.closed = <<>>
            ELSE /\ manager.dialogs = RemoveAt(before, index)
                 /\ dialogCall.returned = before[index]["id"]
                 /\ dialogCall.closed = WithOnClose(<<before[index]>>)

\* close() without an id was called with two dialogs open, both with an onClose
\* callback: the top-most one is gone and its callback was called.
C24_Witness ==
    /\ dialogCall.op = "close"
    /\ dialogCall.arg = UNDEF
    /\ Len(dialogCall.before) = 2
    /\ WithOnClose(dialogCall.before) = dialogCall.before
    /\ manager.dialogs = <<dialogCall.before[1]>>
    /\ dialogCall.returned = TopBefore["id"]
    /\ dialogCall.closed = <<TopBefore>>

\* C25: show(options) without an id adds one dialog, which is the top-most one,
\* and returns an id that no dialog open before the call had.
C25_ShowAddsNewDialog ==
    (/\ dialogCall.op = "show"
     /\ "id" \notin DOMAIN dialogCall.arg
     /\ dialogCall.thrown = UNDEF)
        => /\ Len(manager.dialogs) = Len(dialogCall.before) + 1
           /\ manager.dialogs[Len(manager.dialogs)]["id"] = dialogCall.returned
           /\ \A i \in DOMAIN dialogCall.before :
                 dialogCall.before[i]["id"] # dialogCall.returned

\* C26: after replace(options) the list has one dialog, made of the options
\* under the returned id, and the onClose of each dialog that was open was
\* called once, the top-most dialog's first.
C26_ReplaceClosesAll ==
    (dialogCall.op = "replace" /\ dialogCall.thrown = UNDEF) =>
        /\ manager.dialogs = <<Put(dialogCall.arg, "id", dialogCall.returned)>>
        /\ dialogCall.closed = Reverse(WithOnClose(dialogCall.before))

\* replace was called with two dialogs open, both with an onClose callback, and
\* options that name the id of the older one.
C26_Witness ==
    /\ dialogCall.op = "replace"
    /\ Len(dialogCall.before) = 2
    /\ WithOnClose(dialogCall.before) = dialogCall.before
    /\ Get(dialogCall.arg, "id") = dialogCall.before[1]["id"]
    /\ dialogCall.closed = <<dialogCall.before[2], dialogCall.before[1]>>
    /\ Len(manager.dialogs) = 1
    /\ manager.dialogs[1] = dialogCall.arg

(***************************************************************************)
(* The checkbox                                                            *)
(*   checkbox      the fields of the CheckboxRenderable: isControlled,     *)
(*                 controlledValue, internalChecked, disabled, and whether *)
(*                 an onCheckedChange callback is set                      *)
(*   checkboxCall  the last call made on the checkbox: the operation, its  *)
(*                 argument, the fields before it, what it returned and    *)
(*                 the values onCheckedChange was called with              *)
(***************************************************************************)
Bool(b) == [jsType |-> "boolean", value |-> b]

\* The values a caller passes for an optional boolean.
OptionalBooleans == {UNDEF, Bool(FALSE), Bool(TRUE)}

\* The keys that reach the checkbox.
CheckboxKeys == {"space", "return", "enter", "tab"}

\* options.checked ?? options.defaultChecked ?? the default, which is false.
constructCheckbox(options) ==
    [isControlled    |-> options.checked # UNDEF,
     controlledValue |-> IF options.checked # UNDEF THEN options.checked.value ELSE FALSE,
     internalChecked |-> IF options.checked # UNDEF
                         THEN options.checked.value
                         ELSE IF options.defaultChecked # UNDEF
                         THEN options.defaultChecked.value
                         ELSE FALSE,
     disabled        |-> IF options.disabled # UNDEF THEN options.disabled.value ELSE FALSE,
     hasCallback     |-> options.onCheckedChange]

\* get checked()
checked(box) == IF box.isControlled THEN box.controlledValue ELSE box.internalChecked

\* The checkbox a call works on, with what the call has returned and the values
\* it has passed to onCheckedChange so far.
CheckboxWorld == [checkbox |-> checkbox, returned |-> UNDEF, calls |-> <<>>]

\* this._onCheckedChange?.(newValue)
callOnCheckedChange(w, newValue) ==
    IF w.checkbox.hasCallback THEN [w EXCEPT !.calls = Append(@, newValue)] ELSE w

\* toggle that also writes the new value to the controlled value.
toggleControlledValue(w) ==
    IF w.checkbox.disabled
    THEN w
    ELSE LET newValue == ~checked(w.checkbox)
         IN  IF w.checkbox.isControlled
             THEN callOnCheckedChange([w EXCEPT !.checkbox.controlledValue = newValue],
                                      newValue)
             ELSE callOnCheckedChange([w EXCEPT !.checkbox.internalChecked = newValue],
                                      newValue)

toggle(w) ==
    IF w.checkbox.disabled
    THEN w
    ELSE LET newValue == ~checked(w.checkbox)
         IN  IF w.checkbox.isControlled
             THEN callOnCheckedChange(w, newValue)
             ELSE callOnCheckedChange([w EXCEPT !.checkbox.internalChecked = newValue],
                                      newValue)

\* handleKeyPress without the test of disabled: the key is reported as handled.
handleKeyPressNoGuard(w, key) ==
    IF key = "space"
    THEN [toggle(w) EXCEPT !.returned = TRUE]
    ELSE IF key = "return" \/ key = "enter"
    THEN [toggle(w) EXCEPT !.returned = TRUE]
    ELSE [w EXCEPT !.returned = FALSE]

handleKeyPress(w, key) ==
    IF w.checkbox.disabled
    THEN [w EXCEPT !.returned = FALSE]
    ELSE IF key = "space"
    THEN [toggle(w) EXCEPT !.returned = TRUE]
    ELSE IF key = "return" \/ key = "enter"
    THEN [toggle(w) EXCEPT !.returned = TRUE]
    ELSE [w EXCEPT !.returned = FALSE]

\* The onMouseUp handler the constructor installs; the focus is not in the model.
onMouseUp(w) == IF ~w.checkbox.disabled THEN toggle(w) ELSE w

\* set checked(value)
setChecked(w, value) ==
    IF value.jsType # "boolean"
    THEN w
    ELSE [w EXCEPT !.checkbox.isControlled = TRUE,
                   !.checkbox.controlledValue = value.value]

\* set defaultChecked(value)
setDefaultChecked(w, value) ==
    IF ~w.checkbox.isControlled /\ w.checkbox.internalChecked # value
    THEN [w EXCEPT !.checkbox.internalChecked = value]
    ELSE w

\* set disabled(value)
setDisabled(w, value) == [w EXCEPT !.checkbox.disabled = value]

\* set onCheckedChange(callback): a callback or undefined.
setOnCheckedChange(w, hasCallback) == [w EXCEPT !.checkbox.hasCallback = hasCallback]

InitCheckbox ==
    /\ InitEngine
    /\ NoDialog
    /\ NoToast
    /\ NoToaster
    /\ \E initialChecked \in OptionalBooleans, defaultChecked \in OptionalBooleans,
          disabled \in OptionalBooleans, hasCallback \in BOOLEAN :
          checkbox = constructCheckbox([checked         |-> initialChecked,
                                        defaultChecked  |-> defaultChecked,
                                        disabled        |-> disabled,
                                        onCheckedChange |-> hasCallback])
    /\ checkboxCall = NoCall

\* The state after a call and the record of the call.
CheckboxCalled(op, arg, w) ==
    /\ checkbox' = w.checkbox
    /\ checkboxCall' = [op |-> op, arg |-> arg, before |-> checkbox,
                        returned |-> w.returned, calls |-> w.calls]
    /\ UNCHANGED <<engineVars, dialogVars, toastVars, toasterVars>>

Toggle ==
    /\ checkbox # UNDEF
    /\ CheckboxCalled("toggle", UNDEF, toggle(CheckboxWorld))

KeyPress(key) ==
    /\ checkbox # UNDEF
    /\ CheckboxCalled("keypress", key, handleKeyPress(CheckboxWorld, key))

MouseUp ==
    /\ checkbox # UNDEF
    /\ CheckboxCalled("mouseUp", UNDEF, onMouseUp(CheckboxWorld))

SetChecked(value) ==
    /\ checkbox # UNDEF
    /\ CheckboxCalled("setChecked", value, setChecked(CheckboxWorld, value))

SetDefaultChecked(value) ==
    /\ checkbox # UNDEF
    /\ CheckboxCalled("setDefaultChecked", value, setDefaultChecked(CheckboxWorld, value))

SetDisabled(value) ==
    /\ checkbox # UNDEF
    /\ CheckboxCalled("setDisabled", value, setDisabled(CheckboxWorld, value))

SetOnCheckedChange(hasCallback) ==
    /\ checkbox # UNDEF
    /\ CheckboxCalled("setOnCheckedChange", hasCallback,
                      setOnCheckedChange(CheckboxWorld, hasCallback))

NextCheckbox ==
    \/ Toggle
    \/ \E key \in CheckboxKeys : KeyPress(key)
    \/ MouseUp
    \/ \E value \in OptionalBooleans : SetChecked(value)
    \/ \E value \in BOOLEAN : SetDefaultChecked(value)
    \/ \E value \in BOOLEAN : SetDisabled(value)
    \/ \E hasCallback \in BOOLEAN : SetOnCheckedChange(hasCallback)

SpecCheckbox == InitCheckbox /\ [][NextCheckbox]_vars

(***************************************************************************)
(* Controlled and uncontrolled checkbox                                    *)
(***************************************************************************)
\* The last call was toggle(), a space, return or enter key, or a mouse up.
Toggling ==
    \/ checkboxCall.op = "toggle"
    \/ checkboxCall.op = "keypress" /\ checkboxCall.arg \in {"space", "return", "enter"}
    \/ checkboxCall.op = "mouseUp"

\* onCheckedChange was called once, with the value, if a callback is set.
CalledWith(value) ==
    checkboxCall.calls = IF checkboxCall.before.hasCallback THEN <<value>> ELSE <<>>

\* What the modes do on a toggle, and what changes `checked` of a controlled
\* checkbox.
ModesOnToggle ==
    /\ (Toggling /\ checkboxCall.before.isControlled)
          => /\ checked(checkbox) = checked(checkboxCall.before)
             /\ CalledWith(~checked(checkboxCall.before))
    /\ (Toggling /\ ~checkboxCall.before.isControlled)
          => /\ checked(checkbox) = ~checked(checkboxCall.before)
             /\ CalledWith(checked(checkbox))

\* `checked` of a controlled checkbox changes only in a call that sets the
\* checked property.
ControlledChangesBySetter ==
    (/\ checkboxCall.op # "none"
     /\ checkboxCall.before.isControlled
     /\ checked(checkbox) # checked(checkboxCall.before))
        => checkboxCall.op = "setChecked"

\* C27 as stated: a toggle of a controlled checkbox leaves `checked` as it was
\* and calls onCheckedChange with the negated value; a toggle of an uncontrolled
\* checkbox flips `checked` and calls onCheckedChange with the new value;
\* `checked` of a controlled checkbox changes only when the property is set.
C27_ToggleByMode ==
    /\ checkboxCall.op # "none" => ModesOnToggle
    /\ ControlledChangesBySetter

\* C27 for a checkbox that may be disabled: the modes behave as stated when the
\* checkbox is not disabled; a toggle of a disabled checkbox changes nothing
\* and calls nothing, in either mode; `checked` of a controlled checkbox
\* changes only when the property is set.
C27_ToggleByModeUnlessDisabled ==
    /\ (checkboxCall.op # "none" /\ ~checkboxCall.before.disabled) => ModesOnToggle
    /\ (Toggling /\ checkboxCall.before.disabled)
          => checkbox = checkboxCall.before /\ checkboxCall.calls = <<>>
    /\ ControlledChangesBySetter

\* A controlled checkbox with a callback, checked and not disabled, was toggled
\* by the space key: onCheckedChange was called with false and `checked` is
\* still true.
C27_Witness ==
    /\ checkboxCall.op = "keypress"
    /\ checkboxCall.arg = "space"
    /\ checkboxCall.before.isControlled
    /\ ~checkboxCall.before.disabled
    /\ checkboxCall.before.hasCallback
    /\ checked(checkboxCall.before)
    /\ checked(checkbox)
    /\ checkboxCall.calls = <<FALSE>>

(***************************************************************************)
(* The toast and the toaster                                               *)
(*   toast      the fields of a ToastRenderable: type, remainingTime       *)
(*              ("finite" or "Infinity"), timerHandle ("null", "pending"   *)
(*              when the timeout it names has not fired and was not        *)
(*              cleared, "cleared" otherwise), paused, dismissed, and      *)
(*              leaked, the pending auto-dismiss timeouts the handle no    *)
(*              longer names; onDismissCalls and onRemoveCalls, the calls  *)
(*              of the two callbacks, and removeTimers, the pending        *)
(*              removal timeouts                                           *)
(*   toastCall  the last thing that happened to the toast: the operation   *)
(*              and the fields before it                                   *)
(*   toaster    the fields of a ToasterRenderable: options and             *)
(*              toastRenderables, the entries of the Map in insertion      *)
(*              order, and call, the last thing that happened to it        *)
(***************************************************************************)
\* A time in milliseconds is a finite number or Infinity.
Finite == [jsType |-> "number", value |-> "finite"]

\* TOAST_DURATION.PERSISTENT
Infinity == [jsType |-> "number", value |-> "Infinity"]

\* TOAST_DURATION.DEFAULT
DefaultDuration == Finite

ToastTypes == {"info", "loading"}

\* The durations callers pass with a toast; undefined for none.
ToastDurations == {UNDEF, Finite, Infinity}

\* The auto-dismiss timeouts of one toast that are pending without a handle.
MaxLeaked == 2

\* The default of visibleToasts.
DefaultVisibleToasts == 3

\* The visibleToasts a program sets.
SmallVisibleToasts == 2

\* The ids of the toasts a run shows.
MaxToasts == 4

ToastIds == 1..MaxToasts

\* computeToastDuration without toastOptions.
computeToastDuration(type, toastDuration) ==
    IF toastDuration # UNDEF THEN toastDuration ELSE DefaultDuration

\* setTimeout, assigned to _timerHandle: a timeout the handle named stays
\* pending.
startTimer(t) ==
    IF t.remainingTime = Infinity
    THEN t
    ELSE [t EXCEPT !.timerHandle = "pending",
                   !.leaked = IF t.timerHandle = "pending" THEN @ + 1 ELSE @]

\* pause that does nothing else than set the flag.
pauseKeepsTimer(t) ==
    IF t.paused \/ t.remainingTime = Infinity
    THEN t
    ELSE [t EXCEPT !.paused = TRUE]

\* The remaining time stays finite.
pause(t) ==
    IF t.paused \/ t.remainingTime = Infinity
    THEN t
    ELSE [t EXCEPT !.paused = TRUE, !.timerHandle = "null"]

resume(t) ==
    IF ~t.paused \/ t.remainingTime = Infinity
    THEN t
    ELSE startTimer([t EXCEPT !.paused = FALSE])

\* dismiss without the test of _dismissed.
dismissUnguarded(t) ==
    [t EXCEPT !.dismissed = TRUE, !.timerHandle = "null",
              !.onDismissCalls = @ + 1, !.removeTimers = @ + 1]

\* onDismiss is called and the removal is scheduled. ToastState.dismiss(id)
\* comes back to this method through the toaster's subscriber and removeToast,
\* and returns at the first line.
dismiss(t) ==
    IF t.dismissed
    THEN t
    ELSE [t EXCEPT !.dismissed = TRUE, !.timerHandle = "null",
                   !.onDismissCalls = @ + 1, !.removeTimers = @ + 1]

\* The callback of the removal timeout: onRemove.
remove(t) == [t EXCEPT !.removeTimers = @ - 1, !.onRemoveCalls = @ + 1]

updateToast(t, type, duration) ==
    IF type # "loading"
    THEN LET cleared == [t EXCEPT !.type = type,
                                  !.timerHandle = IF @ = "null" THEN "null" ELSE "cleared",
                                  !.remainingTime = computeToastDuration(type, duration)]
         IN  IF cleared.remainingTime # Infinity THEN startTimer(cleared) ELSE cleared
    ELSE [t EXCEPT !.type = type]

\* The callback of the auto-dismiss timeout: onAutoClose, then dismiss.
autoClose(t) == dismiss(t)

\* new ToastRenderable(ctx, {toast})
constructToast(type, duration) ==
    LET t == [type |-> type, remainingTime |-> computeToastDuration(type, duration),
              timerHandle |-> "null", leaked |-> 0, paused |-> FALSE, dismissed |-> FALSE,
              onDismissCalls |-> 0, removeTimers |-> 0, onRemoveCalls |-> 0]
    IN  IF t.remainingTime # Infinity /\ type # "loading" THEN startTimer(t) ELSE t

\* --- a program with one toast ---
InitToast ==
    /\ InitEngine
    /\ NoDialog
    /\ NoCheckbox
    /\ NoToaster
    /\ \E type \in ToastTypes, duration \in ToastDurations :
          toast = constructToast(type, duration)
    /\ toastCall = NoCall

\* The state after a call and the record of the call.
ToastCalled(op, t) ==
    /\ t.leaked <= MaxLeaked
    /\ toast' = t
    /\ toastCall' = [op |-> op, before |-> toast]
    /\ UNCHANGED <<engineVars, dialogVars, checkboxVars, toasterVars>>

\* The mouse is over the toast.
Pause == ToastCalled("pause", pause(toast))

\* The mouse has left the toast.
Resume == ToastCalled("resume", resume(toast))

UpdateToast(type, duration) == ToastCalled("updateToast", updateToast(toast, type, duration))

\* dismiss() from any of its callers: the close button, the toaster's
\* removeToast, dismissAll.
DismissToast == ToastCalled("dismiss", dismiss(toast))

\* The removal timeout fires.
RemoveTimerFires ==
    /\ toast.removeTimers > 0
    /\ ToastCalled("remove", remove(toast))

\* The timeout the handle names fires.
TimerHandleFires ==
    /\ toast.timerHandle = "pending"
    /\ ToastCalled("autoClose", autoClose([toast EXCEPT !.timerHandle = "cleared"]))

\* A timeout the handle no longer names fires.
LeakedTimerFires ==
    /\ toast.leaked > 0
    /\ ToastCalled("autoClose", autoClose([toast EXCEPT !.leaked = @ - 1]))

NextToast ==
    \/ Pause
    \/ Resume
    \/ \E type \in ToastTypes, duration \in ToastDurations : UpdateToast(type, duration)
    \/ DismissToast
    \/ TimerHandleFires
    \/ LeakedTimerFires
    \/ RemoveTimerFires

SpecToast == InitToast /\ [][NextToast]_vars

\* C28: the auto-dismiss timeout never fires on a toast that is paused.
C28_PausedNeverAutoCloses ==
    toastCall.op = "autoClose" => ~toastCall.before.paused

\* --- a program with a toaster ---
\* The entries of _toastRenderables with the id.
ToastIndex(tr, id) ==
    {i \in DOMAIN tr.toastRenderables : tr.toastRenderables[i].id = id}

\* removeToast(id): the toast renderable is dismissed; it stays in the map
\* until its removal is due.
removeToast(tr, id) ==
    [tr EXCEPT !.toastRenderables =
        [i \in DOMAIN @ |-> IF @[i].id = id
                            THEN [@[i] EXCEPT !.renderable = dismiss(@)]
                            ELSE @[i]]]

RECURSIVE removeToasts(_, _)
\* removeToast for each id of the list.
removeToasts(tr, ids) ==
    IF ids = <<>> THEN tr ELSE removeToasts(removeToast(tr, Head(ids)), Tail(ids))

\* The keys of _toastRenderables, in insertion order.
ToastKeys(tr) == [i \in DOMAIN tr.toastRenderables |-> tr.toastRenderables[i].id]

addOrUpdateToast(tr, id, type, duration) ==
    IF ToastIndex(tr, id) # {}
    THEN [tr EXCEPT !.toastRenderables =
             [i \in DOMAIN @ |-> IF @[i].id = id
                                 THEN [@[i] EXCEPT !.renderable = updateToast(@, type, duration)]
                                 ELSE @[i]]]
    ELSE LET stackingMode == IF tr.options.stackingMode = UNDEF
                             THEN "single"
                             ELSE tr.options.stackingMode.value
             maxVisible == IF tr.options.visibleToasts = UNDEF
                           THEN DefaultVisibleToasts
                           ELSE tr.options.visibleToasts.value
             currentCount == Len(tr.toastRenderables)
             toRemove == currentCount - maxVisible + 1
             limited == IF stackingMode = "single"
                        THEN removeToasts(tr, ToastKeys(tr))
                        ELSE IF currentCount >= maxVisible
                        THEN removeToasts(tr, SubSeq(ToastKeys(tr), 1, toRemove))
                        ELSE tr
         IN  [limited EXCEPT !.toastRenderables =
                 Append(@, [id |-> id, renderable |-> constructToast(type, duration)])]

\* handleToastRemoved(toast)
handleToastRemoved(tr, id) ==
    [tr EXCEPT !.toastRenderables = SelectSeq(@, LAMBDA entry : entry.id # id)]

\* get toastCount()
toastCount(tr) == Len(tr.toastRenderables)

InitToaster ==
    /\ InitEngine
    /\ NoDialog
    /\ NoCheckbox
    /\ NoToast
    /\ \E stackingMode \in {UNDEF, Str("stack")},
          visibleToasts \in {UNDEF, Num(SmallVisibleToasts)} :
          toaster = [options |-> [stackingMode |-> stackingMode,
                                  visibleToasts |-> visibleToasts],
                     toastRenderables |-> <<>>,
                     call |-> "none"]

ToasterStep(op, tr) ==
    /\ toaster' = [tr EXCEPT !.call = op]
    /\ UNCHANGED <<engineVars, dialogVars, checkboxVars, toastVars>>

\* ToastState publishes a toast: the toaster's subscriber adds or updates it.
PublishToast(id) == ToasterStep("publish", addOrUpdateToast(toaster, id, "info", UNDEF))

\* ToastState publishes the dismissal of a toast.
PublishDismiss(id) ==
    /\ ToastIndex(toaster, id) # {}
    /\ ToasterStep("dismiss", removeToast(toaster, id))

\* The auto-dismiss timeout of a toast fires.
ToastAutoCloses(id) ==
    /\ \E i \in ToastIndex(toaster, id) :
          toaster.toastRenderables[i].renderable.timerHandle = "pending"
    /\ ToasterStep("autoClose", removeToast(toaster, id))

\* The removal of a dismissed toast is due.
ToastUnmounts(id) ==
    /\ \E i \in ToastIndex(toaster, id) :
          toaster.toastRenderables[i].renderable.removeTimers > 0
    /\ ToasterStep("unmount", handleToastRemoved(toaster, id))

NextToaster ==
    \/ \E id \in ToastIds : PublishToast(id)
    \/ \E id \in ToastIds : PublishDismiss(id)
    \/ \E id \in ToastIds : ToastAutoCloses(id)
    \/ \E id \in ToastIds : ToastUnmounts(id)

SpecToaster == InitToaster /\ [][NextToaster]_vars

\* C29: in stack mode toastCount is never more than visibleToasts.
C29_CountWithinLimit ==
    toaster.options.stackingMode = Str("stack")
        => toastCount(toaster) <= IF toaster.options.visibleToasts = UNDEF
                                  THEN DefaultVisibleToasts
                                  ELSE toaster.options.visibleToasts.value

(***************************************************************************)
(* Selections and defaults                                                 *)
(* A program with one definition that declares intent and size, compound   *)
(* variants over both, and defaults; the component is rendered with every  *)
(* set of selections.                                                      *)
(***************************************************************************)
InitSelections == InitWith("selections")

NextSelections ==
    \/ \E stateKey \in {"active", "focused"} : \E value \in StateValues(stateKey) :
          SetState(stateKey, value)
    \/ \E name \in VariantPropNames : \E value \in VariantPropValues(name) :
          SetVariantProp(name, value)
    \/ \E name \in VariantPropNames : RemoveVariantProp(name)

SpecSelections == InitSelections /\ [][NextSelections]_vars

\* The condition keys of a compound variant.
ConditionsOf(i) == (DOMAIN compoundItems[i]) \ {"styles"}

\* The explicit selection of a variant, else its default.
SelectionOrDefault(name) ==
    IF name \in DOMAIN variantProps
    THEN variantProps[name]
    ELSE Get(processed.defaultVariants, name)

\* The processed config without one compound variant.
WithoutCompound(i) ==
    [processed EXCEPT !.compoundVariants =
        Arr(SubSeq(compoundItems, 1, i - 1) \o SubSeq(compoundItems, i + 1, Len(compoundItems)))]

\* C31: a compound variant with conditions applies exactly when every condition
\* equals the explicit selection of its variant, else the default; one whose
\* conditioned variant is explicitly selected with another value leaves the
\* output as it is without that compound variant.
C31_CompoundOnEffectiveValues ==
    \A i \in DOMAIN compoundItems :
        ConditionsOf(i) # {} =>
            /\ i \in Matching
                  <=> \A name \in ConditionsOf(i) :
                          compoundItems[i][name] = SelectionOrDefault(name)
            /\ (\E name \in ConditionsOf(i) \cap DOMAIN variantProps :
                    variantProps[name] # compoundItems[i][name])
                  => result = resolveStyles(WithoutCompound(i), state, variantProps,
                                            inlineStyles)

\* The defaults satisfy the conditions of a compound variant over two variants,
\* one of them is explicitly selected with another value, and the compound
\* variant's styles would show in the output.
C31_Witness ==
    \E i \in DOMAIN compoundItems :
        /\ Cardinality(ConditionsOf(i)) = 2
        /\ \A name \in ConditionsOf(i) :
              compoundItems[i][name] = Get(processed.defaultVariants, name)
        /\ \E name \in ConditionsOf(i) \cap DOMAIN variantProps :
              variantProps[name] # compoundItems[i][name]
        /\ i \notin Matching
        /\ result # resolveStyles(processed, state, EmptyObject, inlineStyles)
        /\ i \in {j \in DOMAIN compoundItems :
                     compoundVariantMatches(compoundItems[j], processed.defaultVariants)}

\* Object.keys(config.variants): the variant names a config declares.
DeclaredVariantNames(config) ==
    IF Get(config, "variants") = UNDEF THEN {} ELSE OrderedKeys(config.variants)

\* The variant names the configs of the chain declare.
ChainVariantNames == UNION {DeclaredVariantNames(chain[i]) : i \in DOMAIN chain}

\* C32: the variant name set of a composed definition is the union of the
\* variant names its configs declare, the definition carries the metadata of
\* the innermost component, and a prop named after a variant any config of the
\* chain declares is split off as a variant prop.
C32_VariantNamesAreUnion ==
    /\ processed.variantNameSet = ChainVariantNames
    /\ definition.meta = ComponentMeta
    /\ processed.stateKeys = ComponentMeta.stateKeys
    /\ \A name \in ChainVariantNames : \A value \in {Str("lg"), UNDEF} :
          LET split == splitVariantProps((name :> value) @@ ("title" :> Str("hello")),
                                         getVariantNames(processed))
          IN  /\ DOMAIN split[1] = {name}
              /\ DOMAIN split[2] = {"title"}

\* Three configs deep, with a variant only the innermost config declares.
C32_Witness ==
    /\ Len(chain) = 3
    /\ \E name \in DeclaredVariantNames(chain[1]) :
          /\ name \notin DeclaredVariantNames(chain[2]) \cup DeclaredVariantNames(chain[3])
          /\ name \in processed.variantNameSet
    /\ DeclaredVariantNames(chain[3]) # {}

\* The last call was a close that named no open dialog.
CloseMissed ==
    /\ dialogCall.op = "close"
    /\ IF dialogCall.arg = UNDEF
       THEN dialogCall.before = <<>>
       ELSE findIndex(dialogCall.before, dialogCall.arg) = 0

\* C33: a close that names no open dialog, or a close without an id when no
\* dialog is open, returns undefined, leaves the dialogs as they were, publishes
\* nothing (the version stays and no subscriber is notified) and calls no
\* onClose.
C33_CloseMissIsNoOp ==
    CloseMissed =>
        /\ dialogCall.returned = UNDEF
        /\ manager.dialogs = dialogCall.before
        /\ dialogCall.published = 0
        /\ dialogCall.closed = <<>>
        /\ dialogCall.thrown = UNDEF

\* A close with the id of no open dialog while two dialogs are open, one of
\* them with an onClose callback.
C33_Witness ==
    /\ CloseMissed
    /\ dialogCall.arg # UNDEF
    /\ Len(dialogCall.before) = 2
    /\ WithOnClose(dialogCall.before) # <<>>

\* C34: while the checkbox is disabled, toggle(), a key press and a mouse click
\* leave `checked` as it was and do not call onCheckedChange, and handleKeyPress
\* returns false.
C34_DisabledIgnoresInteraction ==
    (/\ checkboxCall.op \in {"toggle", "keypress", "mouseUp"}
     /\ checkboxCall.before.disabled)
        => /\ checked(checkbox) = checked(checkboxCall.before)
           /\ checkbox.internalChecked = checkboxCall.before.internalChecked
           /\ checkboxCall.calls = <<>>
           /\ checkboxCall.op = "keypress" => checkboxCall.returned = FALSE

\* The space key was pressed on a disabled, uncontrolled checkbox that has a
\* callback.
C34_Witness ==
    /\ checkboxCall.op = "keypress"
    /\ checkboxCall.arg = "space"
    /\ checkboxCall.before.disabled
    /\ ~checkboxCall.before.isControlled
    /\ checkboxCall.before.hasCallback
    /\ checkboxCall.returned = FALSE

\* C35: onDismiss is called at most once and onRemove at most once for a toast,
\* whatever calls dismiss and however often, and a dismissed toast stays
\* dismissed.
C35_DismissedOnce ==
    /\ toast.onDismissCalls <= 1
    /\ toast.onRemoveCalls + toast.removeTimers <= 1
    /\ toast.dismissed <=> toast.onDismissCalls = 1
    /\ (toastCall.op # "none" /\ toastCall.before.dismissed) => toast.dismissed

\* dismiss() is called on a toast that is dismissed and removed already.
C35_Witness ==
    /\ toastCall.op = "dismiss"
    /\ toastCall.before.dismissed
    /\ toastCall.before.onRemoveCalls = 1
    /\ toast.onDismissCalls = 1

\* C38: a loading toast is created with no auto-dismiss timeout armed, and
\* pause() and resume() on a loading toast that has none armed arm none.
C38_LoadingNeverArmed ==
    /\ (toastCall.op = "none" /\ toast.type = "loading") => toast.timerHandle # "pending"
    /\ (/\ toastCall.op \in {"pause", "resume"}
        /\ toastCall.before.type = "loading"
        /\ toastCall.before.timerHandle # "pending"
        /\ toastCall.before.leaked = 0)
          => toast.timerHandle # "pending" /\ toast.leaked = 0

\* The step is the callback of a focus restore timeout: a pending timeout is
\* gone and the manager was not destroyed in the step.
RestoreTimerStep ==
    /\ ctx'.timers = ctx.timers - 1
    /\ manager'.destroyed = manager.destroyed

\* C39: a focus restore timeout that fires while a dialog is open changes
\* neither the focus nor the focus saved for the open dialogs.
C39_RestoreNeverActsWhileOpen ==
    [][(RestoreTimerStep /\ Len(manager.dialogs) > 0)
          => /\ ctx'.focused = ctx.focused
             /\ manager'.savedFocus = manager.savedFocus]_vars

\* C36: a variant prop passed with the value undefined resolves like a prop
\* that is not passed: the output is the output without that selection, in
\* which the variant's default applies.
C36_UndefinedSelectionIsAbsent ==
    \A name \in DOMAIN variantProps :
        variantProps[name] = UNDEF
            => result = resolveStyles(processed, state, Without(variantProps, name),
                                      inlineStyles)

\* The ids that have a dialog renderable in the container.
RenderableIds ==
    {container.dialogRenderables[i].dialog["id"] : i \in DOMAIN container.dialogRenderables}

\* The ids of the manager's dialogs.
ManagerIds == {manager.dialogs[i]["id"] : i \in DOMAIN manager.dialogs}

\* C37: while the manager is not destroyed, the ids that have a renderable in
\* the container are the ids of the manager's dialogs, after every show, close,
\* closeAll and replace, also of dialogs whose content factory throws.
C37_ContainerInSync ==
    ~manager.destroyed => RenderableIds = ManagerIds

=============================================================================
